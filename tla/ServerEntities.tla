--------------------------- MODULE ServerEntities ---------------------------
(***************************************************************************)
(* The entities of a multiplayer game server (xrServer with the deathmatch *)
(* rules): who is inside whom, which client owns what, who plays whom and  *)
(* which bodies wait to be removed.                                        *)
(*                                                                         *)
(* Handlers call each other synchronously - Level().Send() on the machine  *)
(* of the server is a call of xrServer::OnMessageSync - so a handler is an *)
(* operator from worlds to worlds and an action applies one of them.  A    *)
(* failed R_ASSERT sets "stopped".  What is inside an entity has nothing   *)
(* inside itself (part of Linked), so two levels are enough where the  *)
(* code recurses.                                                          *)
(***************************************************************************)
EXTENDS Integers, Sequences, FiniteSets, SequencesExt

CONSTANTS
    Ids,            \* identifiers of entities, a set of integers
    NoId,           \* 0xffff
    Clients,        \* the xrClientData objects
    Server,         \* SV_Client, the client in the process of the server
    Loadouts,       \* the values of ps->pItemList, what a new actor is given
    MaxCorpses,     \* g_dwMaxCorpses
    BagDropsFirst,  \* does a dead actor drop its bag before it is destroyed?
    Limited         \* is there a limit of time or frags that ends a round?

Weapons == {"weapon", "knife"}      \* each kind has a slot of its own
Items == Weapons \union {"ammo", "outfit", "bag"}
Kinds == Items \union {"actor", "spectator"}

ASSUME ServerAssumption ==
    /\ Ids \subseteq Nat /\ IsFiniteSet(Ids) /\ NoId \notin Ids
    /\ Server \in Clients
    /\ Loadouts \subseteq Seq(Items \ {"bag"})   \* nobody sells the bag
    /\ MaxCorpses \in Nat
    /\ BagDropsFirst \in BOOLEAN /\ Limited \in BOOLEAN

VARIABLES
    entities,       \* id -> entity
    avatar,         \* CL->owner of every client
    gameId,         \* CL->ps->GameID
    dead,           \* GAME_PLAYER_FLAG_VERY_VERY_DEAD
    corpses,        \* m_CorpseList
    stopped,        \* an R_ASSERT failed
    connected,      \* clients in net_players
    gone,           \* clients that were deleted
    leaving,        \* GameIDs in the delayed PLAYER_DISCONNECTED events
    phase           \* game->Phase()

vars == <<entities, avatar, gameId, dead, corpses, stopped,
          connected, gone, leaving, phase>>

World == [entities |-> entities, avatar |-> avatar, gameId |-> gameId,
          dead |-> dead, corpses |-> corpses, stopped |-> stopped,
          phase |-> phase, active |-> NoId, shortens |-> FALSE]

Becomes(w) ==
    /\ entities' = w.entities /\ avatar' = w.avatar /\ gameId' = w.gameId
    /\ dead' = w.dead /\ corpses' = w.corpses /\ stopped' = w.stopped

Alive(w, id) == id \in DOMAIN w.entities
Stop(w) == [w EXCEPT !.stopped = TRUE]
Require(w, condition) == IF condition THEN w ELSE Stop(w)

\* Faults: a definition named "...Fault" or explained as one is not used; it is
\* an error a change of the code could bring in, and the invariants see it.
\* Here, children are inserted at the front.
PushedFront(w, parent, id) ==
    [w EXCEPT !.entities[parent].children = <<id>> \o @]

\* push_back(id) to the children of an entity
WithChild(w, parent, id) == [w EXCEPT !.entities[parent].children = Append(@, id)]

Repeat(n, Body(_), w) == FoldLeft(LAMBDA v, i : Body(v), w, [i \in 1..n |-> i])

\* push_back() of those elements of s that are in R
Kept(s, R) == FoldLeft(LAMBDA t, i : IF i \in R THEN Append(t, i) ELSE t, <<>>, s)

-----------------------------------------------------------------------------
(* Spawning.                                                               *)

FreeIds(w) == Ids \ DOMAIN w.entities

\* PerformIDgen.  Nothing refers to a free identifier (Accounted, Linked), so
\* it does not matter which one is taken.
NewId(w) == CHOOSE id \in FreeIds(w) : \A other \in FreeIds(w) : id <= other

\* xrServer::Process_spawn.  The answer of game->OnTouch is ignored there, and
\* for an entity that has its parent already OnTouch does nothing else.  When
\* no identifier is free, tfGetID fails ("Not enough IDs").
Spawned(w, kind, parent, owner, asPlayer) ==
    LET id == NewId(w)
        entity == [kind |-> kind, parent |-> parent, children |-> <<>>,
                   owner |-> owner, alive |-> TRUE]
        added == [w EXCEPT !.entities = [i \in DOMAIN @ \union {id} |->
                                            IF i = id THEN entity ELSE @[i]],
                           !.avatar[owner] = IF asPlayer THEN id ELSE @]
    IN  IF FreeIds(w) = {} THEN Stop(w)
        ELSE IF parent = NoId THEN added
        ELSE WithChild(added, parent, id)

\* A fault: ps->setGameID is left to OnPlayerReady.
SpawnPlayerUnnamed(w, c, kind) ==
    [Spawned(w, kind, NoId, c, TRUE) EXCEPT !.dead[c] = kind /= "actor"]

\* game_sv_mp::SpawnPlayer
SpawnPlayer(w, c, kind) ==
    LET spawned == Spawned(w, kind, NoId, c, TRUE)
    IN  [spawned EXCEPT !.dead[c] = kind /= "actor",
                        !.gameId[c] = spawned.avatar[c]]

\* game_sv_mp::SpawnWeapon4Actor
SpawnWeapon4Actor(w, actor, kind) == Spawned(w, kind, actor, Server, FALSE)

-----------------------------------------------------------------------------
(* Taking things out.                                                      *)

\* erase(begin() + i).  At the end it is undefined, and it either leaves the
\* container alone or shortens it.
Erased(w, s, i) == IF i <= Len(s) THEN RemoveAt(s, i)
                   ELSE IF w.shortens /\ s /= <<>> THEN Front(s) ELSE s

\* A fault: the child changes hands, and its ID_Parent does not.
TransferredSilently(w, what, from, to) ==
    WithChild([w EXCEPT !.entities[from].children = RemoveFirst(@, what)], to, what)

\* xrServer::Perform_transfer
Transferred(w, what, from, to) ==
    IF /\ Alive(w, what) /\ from /= to /\ w.entities[what].parent = from
       /\ Contains(w.entities[from].children, what)
    THEN WithChild([w EXCEPT !.entities[from].children = RemoveFirst(@, what),
                             !.entities[what].parent = to], to, what)
    ELSE Stop(w)

TransferAll(w, items, from, to) ==
    FoldLeft(LAMBDA v, i : Transferred(v, i, from, to), w, items)

MayReject(w, parent, id) ==
    /\ Alive(w, id) /\ Alive(w, parent)
    /\ Contains(w.entities[parent].children, id)
    /\ w.entities[id].parent /= NoId

\* Process_event_reject for an entity whose OnDetach does nothing.
Dropped(w, parent, id) ==
    IF MayReject(w, parent, id)
    THEN [w EXCEPT !.entities[id].parent = NoId,
                   !.entities[parent].children = RemoveFirst(@, id)]
    ELSE w

\* A fault: what is in the hands falls down first, and is listed all the same.
OnDetachActiveListed(w, parent, id) ==
    IF w.entities[id].kind /= "bag" \/ w.entities[parent].kind /= "actor" THEN w
    ELSE TransferAll(IF Alive(w, w.active) THEN Dropped(w, parent, w.active) ELSE w,
                     Kept(w.entities[parent].children,
                          {i \in Ids : Alive(w, i) /\ w.entities[i].kind \in {"weapon", "ammo"}}),
                     parent, id)

\* game_sv_Deathmatch::OnDetach: a dying actor drops its bag, and what it has
\* goes into the bag, but for the item in its hands, which falls down by
\* itself (RejectGameItem), its knife and its outfit.
OnDetach(w, parent, id) ==
    IF w.entities[id].kind /= "bag" \/ w.entities[parent].kind /= "actor" THEN w
    ELSE LET children == w.entities[parent].children
             checked == Require(w, \A i \in ToSet(children) :
                                     Alive(w, i) /\ w.entities[i].parent = parent)
             toTransfer == Kept(children,
                                {i \in ToSet(children) : /\ i /= w.active
                                    /\ w.entities[i].kind \in {"weapon", "ammo"}})
             moved == TransferAll(checked, toTransfer, parent, id)
         IN  IF checked.stopped THEN checked
             ELSE IF ~ Alive(w, w.active) THEN moved
             ELSE Dropped(moved, w.entities[w.active].parent, w.active)

\* xrServer::Process_event_reject.  The position of the child is found first
\* and used last, and OnDetach takes other children out in between.
Rejected(w, parent, id) ==
    IF ~ MayReject(w, parent, id) THEN w
    ELSE LET c == SelectInSeq(w.entities[parent].children, LAMBDA i : i = id)
             detached == OnDetach(w, parent, id)
         IN  [detached EXCEPT !.entities[id].parent = NoId,
                              !.entities[parent].children = Erased(w, @, c)]

-----------------------------------------------------------------------------
(* Destroying.                                                             *)

\* xrServer::entity_Destroy
EntityDestroyed(w, id) ==
    LET owner == w.entities[id].owner
    IN  [w EXCEPT !.entities = [i \in DOMAIN @ \ {id} |-> @[i]],
                  !.avatar[owner] = IF @ = id THEN NoId ELSE @]

\* A fault: m_CorpseList is not searched.
OnDestroyObjectListed(w, id) ==
    LET owner == w.entities[id].owner
    IN  IF w.gameId[owner] = id /\ w.entities[id].kind = "actor" /\ w.phase = "inprogress"
        THEN SpawnPlayer(w, owner, "spectator") ELSE w

\* game_sv_Deathmatch::OnDestroyObject
OnDestroyObject(w, id) ==
    LET unlisted == [w EXCEPT !.corpses = Kept(@, Ids \ {id})]
        owner == w.entities[id].owner
    IN  IF /\ w.gameId[owner] = id /\ w.entities[id].kind = "actor"
           /\ w.phase = "inprogress"
        THEN SpawnPlayer(unlisted, owner, "spectator")
        ELSE unlisted

\* xrServer::Process_event_destroy of an entity whose children are dealt with.
Removed(w, id) ==
    LET parent == w.entities[id].parent
        rejected == IF parent = NoId THEN w ELSE Rejected(w, parent, id)
    IN  EntityDestroyed(OnDestroyObject(rejected, id), id)

OwnedBy(w, id, sender) == w.entities[id].owner = sender

DestroyFirst(w, id, sender) ==
    LET children == w.entities[id].children
    IN  IF children = <<>> \/ w.stopped THEN w
        ELSE IF ~ Alive(w, Head(children)) \/ ~ OwnedBy(w, Head(children), sender)
             THEN Stop(w)
             ELSE Removed(w, Head(children))

\* xrServer::Process_event_destroy: the children go first, from the front.
Destroyed(w, id, sender) ==
    LET emptied == Repeat(Len(w.entities[id].children),
                          LAMBDA v : DestroyFirst(v, id, sender), w)
    IN  IF ~ Alive(w, id) THEN w
        ELSE IF ~ OwnedBy(w, id, sender) THEN Stop(w)
        ELSE IF emptied.stopped THEN emptied
        ELSE Removed(emptied, id)

-----------------------------------------------------------------------------
(* Taking things.                                                          *)

SlotTaken(w, actor, kind) ==
    \E i \in ToSet(w.entities[actor].children) :
        Alive(w, i) /\ w.entities[i].kind = kind

Attached(w, parent, id) ==
    WithChild([w EXCEPT !.entities[id].parent = parent], parent, id)

\* A fault: no slot is looked at.
AllowedAnyWeapon(w, who, what) ==
    w.entities[who].kind = "actor" /\ w.entities[what].kind \in Items \ {"bag"}

\* game_sv_Deathmatch::OnTouch, for all but the bag and a forced weapon.
Allowed(w, who, what) ==
    /\ w.entities[who].kind = "actor"
    /\ \/ w.entities[what].kind \in {"ammo", "outfit"}
       \/ /\ w.entities[what].kind \in Weapons
          /\ ~ SlotTaken(w, who, w.entities[what].kind)

\* OnTouch of a bag: everything in it is moved to the actor from the back, or
\* falls down, and the bag is destroyed.
MoveLast(w, who, bag) ==
    LET item == Last(w.entities[bag].children)
    IN  IF w.entities[bag].children = <<>> \/ w.stopped THEN w
        ELSE IF ~ Alive(w, item) THEN Stop(w)
        ELSE IF Allowed(w, who, item) THEN Transferred(w, item, bag, who)
        ELSE Rejected(w, bag, item)

BagTouched(w, who, bag) ==
    LET moved == Repeat(Len(w.entities[bag].children),
                        LAMBDA v : MoveLast(v, who, bag), w)
    IN  IF moved.stopped THEN moved ELSE Destroyed(moved, bag, Server)

\* OnTouch of a weapon whose slot is taken, forced: the server sends itself
\* the rejection of the weapon in the slot and the taking of the new one.
Swapped(w, who, what) ==
    LET inSlot == SelectInSeq(w.entities[who].children, LAMBDA i :
                        Alive(w, i) /\ w.entities[i].kind = w.entities[what].kind)
        without == Rejected(w, who, w.entities[who].children[inSlot])
    IN  IF Allowed(without, who, what) THEN Attached(without, who, what) ELSE without

\* xrServer::Process_event_ownership: its early returns, and what it does
\* otherwise.  It is also refused, at any time, for an object that the server's
\* own client has not created yet or is destroying.
MayTake(w, parent, id, sender) ==
    /\ Alive(w, parent) /\ Alive(w, id)
    /\ w.entities[id].parent = NoId
    /\ sender = Server \/ OwnedBy(w, parent, sender)
    /\ w.entities[parent].kind = "actor" /\ w.entities[parent].alive

Taken(w, parent, id, forced) ==
    IF Allowed(w, parent, id) THEN Attached(w, parent, id)
    ELSE IF w.entities[id].kind = "bag" THEN BagTouched(w, parent, id)
    ELSE IF w.entities[id].kind \in Weapons /\ forced THEN Swapped(w, parent, id)
    ELSE w

-----------------------------------------------------------------------------
(* Players.                                                                *)

GivenToServer(w, id) == [w EXCEPT !.entities[id].owner = Server]

\* game_sv_mp::AllowDeadBodyRemove
AllowDeadBodyRemove(w, id) == IF Alive(w, id) THEN GivenToServer(w, id) ELSE w

\* game_sv_mp::RespawnPlayer, then that of game_sv_Deathmatch: the bag is the
\* first thing a new actor is given.
RespawnPlayer(w, c, noSpectator) ==
    LET old == w.avatar[c]
        isActor == w.entities[old].kind = "actor"
        body == IF ~ isActor THEN w
                ELSE [AllowDeadBodyRemove(w, w.gameId[c]) EXCEPT
                        !.corpses = Append(@, old)]
        freed == GivenToServer(body, old)
        cleared == IF isActor THEN freed ELSE Destroyed(freed, old, Server)
        player == IF isActor /\ ~ noSpectator THEN SpawnPlayer(body, c, "spectator")
                  ELSE SpawnPlayer(cleared, c, "actor")
        new == player.avatar[c]
    IN  IF player.entities[new].kind /= "actor" THEN player
        ELSE SpawnWeapon4Actor(player, new, "bag")

\* game_sv_Deathmatch::SpawnWeaponsForActor
SpawnWeaponsForActor(w, actor, loadout) ==
    FoldLeft(LAMBDA v, kind : SpawnWeapon4Actor(v, actor, kind), w, loadout)

EnoughIds(n) == Cardinality(FreeIds(World)) >= n

Armed(w, c, loadout) ==
    IF w.entities[w.avatar[c]].kind = "actor"
    THEN SpawnWeaponsForActor(w, w.avatar[c], loadout) ELSE w

Sessions == <<connected, gone, leaving, phase>>

-----------------------------------------------------------------------------
Init ==
    /\ entities = <<>>
    /\ avatar = [c \in Clients |-> NoId]
    /\ gameId = [c \in Clients |-> NoId]
    /\ dead = [c \in Clients |-> FALSE]
    /\ corpses = <<>>
    /\ stopped = FALSE
    /\ connected = {}
    /\ gone = {}
    /\ leaving = {}
    /\ phase = "inprogress"

\* OnPlayerConnectFinished.  The server's own client is the first.
Connect(c) ==
    /\ ~ stopped
    /\ c \notin connected \union gone
    /\ c = Server \/ Server \in connected
    /\ EnoughIds(1)
    /\ Becomes(SpawnPlayer(World, c, "spectator"))
    /\ connected' = connected \union {c}
    /\ UNCHANGED <<gone, leaving, phase>>

\* OnPlayerReady (it respawns as what it is not), or check_ForceRespawn.
Respawn(c, force, loadout) ==
    /\ ~ stopped
    /\ c \in connected /\ dead[c] /\ avatar[c] /= NoId
    /\ phase = "inprogress"
    /\ EnoughIds(IF entities[avatar[c]].kind = "spectator" THEN 1 + Len(loadout)
                 ELSE IF force THEN 2 + Len(loadout) ELSE 1)
    /\ Becomes(Armed(RespawnPlayer(World, c, force), c, loadout))
    /\ UNCHANGED Sessions

\* OnPlayerSelectSpectator
SelectSpectator(c) ==
    /\ ~ stopped
    /\ c \in connected
    /\ avatar[c] /= NoId /\ entities[avatar[c]].kind = "actor"
    /\ EnoughIds(1)
    /\ Becomes(SpawnPlayer([AllowDeadBodyRemove(World, gameId[c]) EXCEPT
                               !.corpses = Append(@, gameId[c])], c, "spectator"))
    /\ UNCHANGED Sessions

\* GE_DIE reaches the server, and then GAME_EVENT_PLAYER_KILLED does.
Die(id) ==
    /\ ~ stopped
    /\ id \in DOMAIN entities /\ entities[id].kind = "actor" /\ entities[id].alive
    /\ Becomes([World EXCEPT !.entities[id].alive = FALSE])
    /\ UNCHANGED Sessions

Killed(c) ==
    /\ ~ stopped
    /\ c \in connected /\ ~ dead[c] /\ ~ entities[avatar[c]].alive
    /\ Becomes([World EXCEPT !.dead[c] = TRUE])
    /\ UNCHANGED Sessions

\* GE_OWNERSHIP_TAKE and GE_OWNERSHIP_TAKE_MP_FORCED
Take(parent, id) ==
    /\ ~ stopped
    /\ \E c \in connected : MayTake(World, parent, id, c)
    /\ \E forced \in BOOLEAN :
          /\ forced => entities[id].kind \in Weapons   \* others are taken alike
          /\ Becomes(Taken(World, parent, id, forced))
    /\ UNCHANGED Sessions

\* GE_OWNERSHIP_REJECT, from any client.  "active" is what the actor holds in
\* its hands according to the server's own client, if it holds anything.
Reject(parent, id) ==
    /\ ~ stopped
    /\ connected /= {}
    /\ MayReject(World, parent, id)
    /\ \E active \in Ids \union {NoId} :
          /\ active /= NoId =>
                /\ entities[id].kind = "bag" /\ entities[parent].kind = "actor"
                /\ Alive(World, active) /\ entities[active].kind \in Weapons
          /\ Becomes(Rejected([World EXCEPT !.active = active], parent, id))
    /\ UNCHANGED Sessions

HasBag(id) == \E i \in ToSet(entities[id].children) :
                 Alive(World, i) /\ entities[i].kind = "bag"

\* GE_DESTROY.  Only the server's own client sends it, for an object that is
\* local there: an item that was used up or has lain around for too long, or
\* the body of its player (CActor::NeedToDestroyObject).
Destroy(id) ==
    /\ ~ stopped
    /\ id \in DOMAIN entities /\ entities[id].owner = Server
    /\ \/ entities[id].kind \in Items \ {"bag"}
       \/ entities[id].kind = "bag" /\ entities[id].parent = NoId
       \/ /\ entities[id].kind = "actor" /\ ~ entities[id].alive
          /\ \A c \in connected : avatar[c] /= id
          /\ BagDropsFirst => ~ HasBag(id)
    /\ Becomes(Destroyed(World, id, Server))
    /\ UNCHANGED Sessions

\* game_sv_mp::Update, the loop over m_CorpseList.  GE_DESTROY is handled
\* before Send returns, and OnDestroyObject has taken the body off the list
\* when the loop erases its place.
VisitCorpse(v) ==
    LET id == v.world.corpses[v.i]
        destroyed == Destroyed(v.world, id, Server)
    IN  IF \/ v.i > Len(v.world.corpses)
           \/ Len(v.world.corpses) <= MaxCorpses
           \/ v.world.stopped THEN v
        ELSE IF ~ Alive(v.world, id)
             THEN [v EXCEPT !.world.corpses = RemoveAt(@, v.i)]
        ELSE IF v.world.entities[id].children /= <<>>
             THEN [v EXCEPT !.i = @ + 1]
        ELSE [v EXCEPT !.world =
                [destroyed EXCEPT !.corpses = Erased(v.world, @, v.i)]]

CorpsesUpdated(w) ==
    Repeat(Len(w.corpses), VisitCorpse, [world |-> w, i |-> 1]).world

UpdateCorpses(shortens) ==
    /\ ~ stopped
    /\ Len(corpses) > MaxCorpses
    /\ Becomes(CorpsesUpdated([World EXCEPT !.shortens = shortens]))
    /\ UNCHANGED Sessions

\* A fault: GameID is read for the delayed event after it was reset.
DisconnectUnnamed(c) ==
    /\ ~ stopped
    /\ c \in connected \ {Server}
    /\ connected' = connected \ {c}
    /\ gone' = gone \union {c}
    /\ avatar' = [avatar EXCEPT ![c] = NoId]
    /\ gameId' = [gameId EXCEPT ![c] = NoId]
    /\ leaving' = leaving \union {gameId'[c]}
    /\ UNCHANGED <<entities, dead, corpses, stopped, phase>>

\* OnCL_Disconnected and the deletion of the client object.  PerformMigration
\* does nothing.
Disconnect(c) ==
    /\ ~ stopped
    /\ c \in connected \ {Server}
    /\ connected' = connected \ {c}
    /\ gone' = gone \union {c}
    /\ leaving' = leaving \union {gameId[c]}
    /\ avatar' = [avatar EXCEPT ![c] = NoId]
    /\ gameId' = [gameId EXCEPT ![c] = NoId]
    /\ UNCHANGED <<entities, dead, corpses, stopped, phase>>

\* GAME_EVENT_PLAYER_DISCONNECTED, the delayed event: OnPlayerDisconnect
PlayerDisconnected(id) ==
    /\ ~ stopped
    /\ id \in leaving
    /\ leaving' = leaving \ {id}
    /\ LET w == AllowDeadBodyRemove(World, id)
       IN  Becomes(IF Alive(w, id) THEN [w EXCEPT !.corpses = Append(@, id)] ELSE w)
    /\ UNCHANGED <<connected, gone, phase>>

\* The server's own client is the first in net_players.
AllRespawned(w) ==
    FoldLeft(LAMBDA v, c : SpawnPlayer(v, c, "spectator"), w,
             <<Server>> \o SetToSeq(connected \ {Server}))

\* game_sv_Deathmatch::OnPlayerScores: a limit is exceeded, and any player wins.
PlayerScores ==
    /\ ~ stopped
    /\ Limited
    /\ phase = "inprogress" /\ connected /= {}
    /\ phase' = "scores"
    /\ Becomes(World)
    /\ UNCHANGED <<connected, gone, leaving>>

\* game_sv_Deathmatch::OnRoundEnd: some time after that Update calls it, and a
\* command does at any time.
RoundEnd ==
    /\ ~ stopped
    /\ connected /= {}
    /\ phase = "inprogress" => EnoughIds(Cardinality(connected))
    /\ phase' = "pending"
    /\ leaving' = {}
    /\ Becomes(IF phase = "inprogress" THEN AllRespawned(World) ELSE World)
    /\ UNCHANGED <<connected, gone>>

\* xrServer::Perform_destroy: the children are rejected from the back.
ClearLast(w, id, Inner(_, _)) ==
    LET child == Last(w.entities[id].children)
    IN  IF w.entities[id].children = <<>> \/ w.stopped THEN w
        ELSE IF ~ Alive(w, child) \/ w.entities[child].parent /= id THEN Stop(w)
        ELSE Inner(Rejected(w, id, child), child)

ClearedWith(w, id, Inner(_, _)) ==
    LET emptied == Repeat(Len(w.entities[id].children),
                          LAMBDA v : ClearLast(v, id, Inner), w)
    IN  IF emptied.stopped THEN emptied ELSE EntityDestroyed(emptied, id)

InsideDestroyed(w, id) == ClearedWith(w, id, EntityDestroyed)
PerformDestroy(w, root) == ClearedWith(w, root, InsideDestroyed)

\* xrServer::SLS_Clear.  FATAL when only entities with parents are left.
ClearRoot(w) ==
    LET roots == {id \in DOMAIN w.entities : w.entities[id].parent = NoId}
    IN  IF DOMAIN w.entities = {} \/ w.stopped THEN w
        ELSE IF roots = {} THEN Stop(w)
        ELSE PerformDestroy(w, CHOOSE id \in roots : \A r \in roots : id <= r)

SLSClear(w) == Repeat(Cardinality(DOMAIN w.entities), ClearRoot, w)

\* game_sv_Deathmatch::OnRoundStart
RoundStart ==
    /\ ~ stopped
    /\ phase = "pending"
    /\ phase' = "inprogress"
    /\ leaving' = {}
    /\ LET cleared == SLSClear([World EXCEPT !.corpses = <<>>])
       IN  Becomes(IF cleared.stopped THEN cleared ELSE AllRespawned(cleared))
    /\ UNCHANGED <<connected, gone>>

Next ==
    \/ \E c \in Clients : Connect(c)
    \/ \E c \in Clients, force \in BOOLEAN, loadout \in Loadouts :
          Respawn(c, force, loadout)
    \/ \E c \in Clients : SelectSpectator(c)
    \/ \E id \in Ids : Die(id)
    \/ \E c \in Clients : Killed(c)
    \/ \E parent, id \in Ids : Take(parent, id) \/ Reject(parent, id)
    \/ \E id \in Ids : Destroy(id)
    \/ \E shortens \in BOOLEAN : UpdateCorpses(shortens)
    \/ \E c \in Clients : Disconnect(c)
    \/ \E id \in Ids : PlayerDisconnected(id)
    \/ PlayerScores
    \/ RoundEnd
    \/ RoundStart

Spec == Init /\ [][Next]_vars

-----------------------------------------------------------------------------
TypeOK ==
    /\ DOMAIN entities \subseteq Ids
    /\ \A id \in DOMAIN entities :
          /\ entities[id].kind \in Kinds
          /\ entities[id].parent \in Ids \union {NoId}
          /\ entities[id].children \in Seq(Ids)
          /\ entities[id].owner \in Clients
          /\ entities[id].alive \in BOOLEAN
    /\ avatar \in [Clients -> Ids \union {NoId}]
    /\ gameId \in [Clients -> Ids \union {NoId}]
    /\ dead \in [Clients -> BOOLEAN]
    /\ corpses \in Seq(Ids)
    /\ stopped \in BOOLEAN
    /\ connected \subseteq Clients /\ gone \subseteq Clients
    /\ leaving \subseteq Ids
    /\ phase \in {"inprogress", "scores", "pending"}

Children(id) == ToSet(entities[id].children)

\* Parents and children agree, and everything they name exists: what
\* xrServer::verify_entities asserts after every message
\* (xrServer.cpp:1008-1050, xrServer_process_event.cpp:90-107).  And only items
\* are inside something, and have nothing inside: the recursions of destroying
\* end (xrServer_process_event_destroy.cpp:62).
Linked ==
    \A id \in DOMAIN entities :
        /\ entities[id].parent /= NoId =>
              Alive(World, entities[id].parent) /\ id \in Children(entities[id].parent)
        /\ \A i \in Children(id) : Alive(World, i) /\ entities[i].parent = id
        /\ Cardinality(Children(id)) = Len(entities[id].children)
        /\ entities[id].children /= <<>> =>
              /\ entities[id].kind \in {"actor", "bag"} /\ entities[id].parent = NoId
              /\ \A i \in Children(id) : entities[i].kind \in Items

\* The bag of an actor is the first of its children.  Process_event_reject
\* erases the place where it found the bag after OnDetach has taken other
\* children out: only the first place is still right then
\* (xrServer_process_event_reject.cpp:43, 70, 74).
BagFirst ==
    \A id \in DOMAIN entities : \A i \in 2..Len(entities[id].children) :
        entities[id].kind = "actor" => entities[entities[id].children[i]].kind /= "bag"

\* No two weapons of an actor are for one slot, whatever is taken, swapped by
\* force or moved out of a bag (game_sv_deathmatch.cpp:1590-1619).
SlotExclusive ==
    \A id \in DOMAIN entities : entities[id].kind = "actor" =>
        \A i, j \in Children(id) :
            /\ entities[i].kind = entities[j].kind
            /\ entities[i].kind \in Weapons
            => i = j

\* A client plays a living entity of its own: CL->owner and ps->GameID name
\* the same one, and it belongs to the client
\* (xrServer_process_spawn.cpp:112, game_sv_mp.cpp:603, xrServer.cpp:903).
AvatarsLive ==
    \A c \in connected : avatar[c] /= NoId =>
        /\ Alive(World, avatar[c])
        /\ entities[avatar[c]].kind \in {"actor", "spectator"}
        /\ entities[avatar[c]].owner = c
        /\ gameId[c] = avatar[c]

\* A body on the list exists, is listed once, belongs to the server (the loop
\* in Update sends GE_DESTROY in its name) and is played by nobody
\* (game_sv_mp.cpp:92, xrServer_process_event_destroy.cpp:46).
CorpsesOfServer ==
    \A i \in 1..Len(corpses) :
        /\ Alive(World, corpses[i])
        /\ entities[corpses[i]].owner = Server
        /\ \A c \in connected : avatar[c] /= corpses[i]
        /\ \A j \in 1..Len(corpses) : corpses[i] = corpses[j] => i = j

\* No R_ASSERT fails, and no loop over children hangs: a destroyed tree has
\* one owner, and a round can always be cleared (xrServer_sls_clear.cpp:73-88).
NeverStops == ~ stopped

\* In a round every actor or spectator is played, on the list of bodies or on
\* its way there: "remove corpses if their number exceed limit"
\* (game_sv_mp.cpp:68) can reach every body.
BodiesAccounted ==
    phase = "inprogress" => \A id \in DOMAIN entities :
        entities[id].kind \in {"actor", "spectator"} =>
            \/ \E c \in connected : avatar[c] = id
            \/ id \in ToSet(corpses) \union leaving
=============================================================================
