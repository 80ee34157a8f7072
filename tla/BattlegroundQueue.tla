--------------------------- MODULE BattlegroundQueue ---------------------------
(***************************************************************************)
(* server/game/Battlegrounds: the queue of one type of battleground and    *)
(* one bracket, the battlegrounds it fills, and the players on their way   *)
(* from the queue into a battleground and out of it.                       *)
(*                                                                         *)
(* The handlers and the parts of BattlegroundMgr::Update run on the world  *)
(* thread.  Between them a player may answer, not answer, leave or log out.*)
(*                                                                         *)
(* Arenas and rated groups, and a player in the queues of several types,   *)
(* are left out.  Time is abstract: a delay ends at any moment.  An        *)
(* invitation is dated with the number of the queue update that made it.   *)
(***************************************************************************)
EXTENDS Integers, SequencesExt

CONSTANTS
    Team,             \* the players' teams: [Players -> {"alliance", "horde"}]
    Alone,            \* bound: the players who may join alone
    Parties,          \* bound: the groups who may join together
    Settings,         \* CONFIG_BATTLEGROUND_INVITATION_TYPE (balance) and the numbers
                      \* of players per team in the battleground's template (min, max),
                      \* and MaxGroupSize of its BattlemasterList entry (group)
    Quitters,         \* bound: the players whose connection may be lost
    Absent,           \* members of groups who stay offline
    MaxBgs,           \* bound: battlegrounds at one time
    MaxUpdates        \* bound: queue updates that invite

Players == DOMAIN Team
Teams == {"alliance", "horde"}
Other(t) == IF t = "alliance" THEN "horde" ELSE "alliance"
Bgs == 1..MaxBgs
NoBg == 0
NoQueue == -1

NoBalance == 0  \* BG_QUEUE_INVITATION_TYPE_NO_BALANCE
Even == 2       \* BG_QUEUE_INVITATION_TYPE_EVEN

ASSUME ConstantsAssumption ==
    /\ IsFiniteSet(Players) /\ Team \in [Players -> Teams]
    /\ \A party \in Parties : party \subseteq Players
    /\ Settings \subseteq [balance : 0..2, min : Nat, max : Nat, group : Nat]
    /\ \A c \in Settings : 0 < c.min /\ c.min <= c.max
    /\ Quitters \cup Alone \cup Absent \subseteq Players
    /\ {MaxBgs, MaxUpdates} \subseteq Nat

VARIABLES
    config,     \* the settings of this server
    queue,      \* m_QueuedGroups: kind and team to the groups, first come first
    bgs,        \* m_Battlegrounds
    slots,      \* BGFreeSlotQueue
    pl,         \* what a Player knows of queues and battlegrounds
    events,     \* m_events: the pending BGQueueRemoveEvents
    updates,    \* how many queue updates have invited somebody
    scheduled,  \* is an update in m_QueueUpdateScheduler?
    unchecked   \* has a group joined whose members did not pass the checks?

vars == <<config, queue, bgs, slots, pl, events, updates, scheduled, unchecked>>

MinPlayers == config.min
MaxPlayers == config.max

Lists == {"premade", "normal"} \X Teams

(* GroupQueueInfo.  bg: IsInvitedToBGInstanceGUID; time: RemoveInviteTime. *)
NewGroup(ps, team) == [players |-> ps, team |-> team, bg |-> NoBg, time |-> 0]

NoBattleground == [status |-> "none", invited |-> [t \in Teams |-> 0],
                   players |-> {}, offline |-> <<>>]

(* CreateNewBattleground. *)
NewBattleground == [NoBattleground EXCEPT !.status = "join"]

(* GetBattleground finds it. *)
Exists(b) == b # NoBg /\ bgs[b].status # "none"

Of(ps, t) == {p \in ps : Team[p] = t}

(* SelectionPool::GetPlayerCount: nobody is in two groups. *)
Count(groups) == Cardinality(UNION {g.players : g \in Range(groups)})

(* What is left of a list when what is not in S is erased or passed over. *)
Keep(list, S) == FoldLeft(LAMBDA r, x : IF x \in S THEN Append(r, x) ELSE r, <<>>, list)

Init ==
    /\ config \in Settings
    /\ queue = [l \in Lists |-> <<>>]
    /\ bgs = [b \in Bgs |-> NoBattleground]
    /\ slots = <<>>
    /\ pl = [p \in Players |-> [online |-> p \notin Absent, queueId |-> NoQueue,
                                bg |-> NoBg, transit |-> FALSE]]
    /\ events = {}
    /\ updates = 0
    /\ scheduled = FALSE
    /\ unchecked = FALSE

(* The model goes as far as the first group that joins unchecked: a player may be in
   two groups then, and m_QueuedPlayers knows the later one only. *)
Checked == ~unchecked /\ UNCHANGED unchecked

-----------------------------------------------------------------------------
(* The queue: joining and leaving. *)

InQueue == UNION {g.players : g \in UNION {Range(queue[l]) : l \in Lists}}

(* m_QueuedPlayers: the player's group. *)
GroupOf(p) == CHOOSE g \in UNION {Range(queue[l]) : l \in Lists} : p \in g.players

(* The whole group is on the list of its leader's team. *)
AddGroup(ps, kind, team) ==
    queue' = [queue EXCEPT ![<<kind, team>>] = Append(@, NewGroup(ps, team))]

(* RemovePlayer: each of them leaves his group; a group that is empty goes. *)
RemovePlayer(ps) ==
    queue' = [l \in Lists |->
        LET left == [i \in 1..Len(queue[l]) |-> [queue[l][i] EXCEPT !.players = @ \ ps]]
        IN  Keep(left, {g \in Range(left) : g.players # {}})]

InvitedTo(b, p) == p \in InQueue /\ GroupOf(p).bg = b

\* Mutant: the place that was kept for the player is not given back.
DecreaseInvitedCount_Never(ps) == bgs

(* RemovePlayer with decreaseInvitedCount: the places kept for them are free. *)
DecreaseInvitedCount(ps) ==
    [b \in Bgs |-> IF ~Exists(b) THEN bgs[b]
        ELSE [bgs[b] EXCEPT !.invited = [t \in Teams |->
                @[t] - Cardinality({p \in Of(ps, t) : InvitedTo(b, p)})]]]

InWorld(p) == pl[p].online /\ ~pl[p].transit

(* HandleBattlemasterJoinOpcode, alone. *)
JoinAlone(p) ==
    /\ Checked
    /\ p \in Alone /\ InWorld(p) /\ pl[p].bg = NoBg
    /\ pl[p].queueId = NoQueue
    /\ AddGroup({p}, "normal", Team[p])
    /\ pl' = [pl EXCEPT ![p].queueId = 0]
    /\ scheduled' = TRUE
    /\ UNCHANGED <<config, bgs, slots, events, updates>>

Online(ps) == {p \in ps : pl[p].online}

TooMany(party) == Cardinality(party) > config.group

\* Mutant: only the leader is checked.
CanJoinBattlegroundQueue_Leader(party, leader) ==
    TooMany(party) \/ pl[leader].queueId = NoQueue

(* The checks of Group::CanJoinBattlegroundQueue: all are of one team and nobody is
   in this queue already.  Members who are offline are not seen: a group links to
   the players in memory only. *)
Checks(party, leader) ==
    \A p \in Online(party) : Team[p] = Team[leader] /\ pl[p].queueId = NoQueue

(* Group::CanJoinBattlegroundQueue.  A group larger than MaxGroupSize is answered
   ERR_BATTLEGROUND_NONE before the checks, and that is no error to the caller. *)
CanJoinBattlegroundQueue(party, leader) == TooMany(party) \/ Checks(party, leader)

(* HandleBattlemasterJoinOpcode with the group.  Offline members count for the size
   that makes a group a premade one; the update is scheduled even if the group may
   not join.  AddBattlegroundQueueId forgets an invitation a member has. *)
JoinAsGroup(party) ==
    \E leader \in party :
        /\ ~unchecked
        /\ InWorld(leader) /\ pl[leader].bg = NoBg
        /\ IF CanJoinBattlegroundQueue(party, leader)
           THEN /\ AddGroup(Online(party), IF Cardinality(party) >= MinPlayers
                                           THEN "premade" ELSE "normal", Team[leader])
                /\ pl' = [p \in Players |-> IF p \in Online(party)
                            THEN [pl[p] EXCEPT !.queueId = 0] ELSE pl[p]]
                /\ unchecked' = (TooMany(party) /\ ~Checks(party, leader))
           ELSE UNCHANGED <<queue, pl, unchecked>>
        /\ scheduled' = TRUE
        /\ UNCHANGED <<config, bgs, slots, events, updates>>

(* HandleBattleFieldPortOpcode: the player takes his place.  The count keeps the
   place while he is on his way (SendToBattleground). *)
PortAccept(p) ==
    LET g == GroupOf(p)
    IN  /\ Checked
        /\ InWorld(p) /\ pl[p].queueId > 0
        /\ p \in InQueue /\ Exists(g.bg)
        /\ RemovePlayer({p})
        /\ pl' = [pl EXCEPT ![p].bg = g.bg, ![p].transit = TRUE]
        /\ UNCHANGED <<config, bgs, slots, events, updates, scheduled>>

(* He declines, leaves the queue, is a deserter or too old for the battleground. *)
PortDecline(p) ==
    /\ Checked
    /\ InWorld(p) /\ pl[p].queueId # NoQueue
    /\ p \in InQueue
    /\ RemovePlayer({p})
    /\ bgs' = DecreaseInvitedCount({p})
    /\ pl' = [pl EXCEPT ![p].queueId = NoQueue]
    /\ scheduled' = TRUE
    /\ UNCHANGED <<config, slots, events, updates>>

(* IsPlayerInvited: is the event about the invitation he has now? *)
IsPlayerInvited(e) ==
    /\ e.player \in InQueue
    /\ GroupOf(e.player).bg = e.bg /\ GroupOf(e.player).time = e.time

\* Mutant: nothing is done once the battleground is over.
Late_Ended(due) ==
    {e \in due : /\ pl[e.player].online /\ pl[e.player].queueId # NoQueue
                 /\ IsPlayerInvited(e) /\ bgs[e.bg].status # "leave"}

(* BGQueueRemoveEvent::Execute: who has not answered the invitation in time. *)
Late(due) ==
    {e \in due : /\ pl[e.player].online /\ pl[e.player].queueId # NoQueue
                 /\ IsPlayerInvited(e)}

(* UpdateEvents: the invitations of one queue update end at the same time, those of
   an earlier one first. *)
RemoveEvents ==
    LET due == {e \in events : \A f \in events : e.time <= f.time}
        ps  == {e.player : e \in Late(due)}
    IN  /\ Checked
        /\ due # {}
        /\ events' = events \ due
        /\ RemovePlayer(ps)
        /\ bgs' = DecreaseInvitedCount(ps)
        /\ pl' = [p \in Players |-> IF p \in ps THEN [pl[p] EXCEPT !.queueId = NoQueue]
                                                ELSE pl[p]]
        /\ scheduled' = (scheduled \/ \E e \in Late(due) :
                                        Exists(e.bg) /\ bgs[e.bg].status # "leave")
        /\ UNCHANGED <<config, slots, updates>>

-----------------------------------------------------------------------------
(* The battleground: coming in and going out. *)

(* HandleMoveWorldportAck, AddPlayer. *)
Arrived(p) == IF pl[p].queueId = pl[p].bg
              THEN [bgs EXCEPT ![pl[p].bg].players = @ \cup {p}] ELSE bgs

HandleMoveWorldportAck(p) ==
    /\ Checked
    /\ pl[p].transit
    /\ bgs' = Arrived(p)
    /\ pl' = [pl EXCEPT ![p].transit = FALSE]
    /\ UNCHANGED <<config, queue, slots, events, updates, scheduled>>

(* RemovePlayerAtLeave as seen by the battleground. *)
Without(b, ps) ==
    LET gone == ps \cap bgs[b].players
    IN  [bgs EXCEPT ![b].players = @ \ gone,
                    ![b].invited = [t \in Teams |-> @[t] - Cardinality(Of(gone, t))]]

Running(b) == bgs[b].status \in {"join", "progress"}

AddToFreeSlots(b) == IF b \in Range(slots) THEN slots ELSE <<b>> \o slots
RemoveFromFreeSlots(b) == Keep(slots, Bgs \ {b})

\* Mutant: a battleground that was full stays out of the free slot queue.
PlacesFreed_NotAdded(b) == /\ scheduled' = (scheduled \/ Running(b))
                           /\ UNCHANGED slots

(* The end of RemovePlayerAtLeave: a running battleground wants new players. *)
PlacesFreed(b) ==
    IF Running(b) THEN slots' = AddToFreeSlots(b) /\ scheduled' = TRUE
                  ELSE UNCHANGED <<slots, scheduled>>

(* RemovePlayerAtLeave as seen by the players: those who are online are free. *)
Freed(ps) == [p \in Players |->
    IF p \in ps /\ pl[p].online
    THEN [pl[p] EXCEPT !.queueId = NoQueue, !.bg = NoBg] ELSE pl[p]]

(* LeaveBattleground: HandleBattlefieldLeaveOpcode, AFK, a teleport elsewhere. *)
LeaveBattleground(p) ==
    /\ Checked
    /\ InWorld(p) /\ Exists(pl[p].bg)
    /\ p \in bgs[pl[p].bg].players
    /\ bgs' = Without(pl[p].bg, {p})
    /\ pl' = Freed({p})
    /\ PlacesFreed(pl[p].bg)
    /\ UNCHANGED <<config, queue, events, updates>>

(* LogoutPlayer: a player on his way arrives first; one who is inside is kept for
   a while (EventPlayerLoggedOut), one who waits leaves the queue. *)
Logout(p) ==
    LET b == pl[p].bg
    IN  /\ Checked
        /\ p \in Quitters /\ pl[p].online
        /\ pl' = [pl EXCEPT ![p].online = FALSE, ![p].transit = FALSE,
                            ![p].queueId = NoQueue]
        /\ IF Exists(b) /\ p \in Arrived(p)[b].players
           THEN /\ bgs' = [Arrived(p) EXCEPT ![b].offline = Append(@, p)]
                /\ UNCHANGED queue
           ELSE RemovePlayer({p}) /\ bgs' = DecreaseInvitedCount({p})
        /\ UNCHANGED <<config, slots, events, updates, scheduled>>

(* LoadFromDB of a player who was saved in a battleground, or was not. *)
Login(p) ==
    LET b == pl[p].bg
        atBg == Exists(b) /\ p \in bgs[b].players
    IN  /\ Checked
        /\ p \in Quitters /\ ~pl[p].online
        /\ IF atBg /\ bgs[b].status # "leave"
           THEN /\ bgs' = [bgs EXCEPT ![b].offline = Keep(@, Players \ {p})]
                /\ pl' = [pl EXCEPT ![p].online = TRUE, ![p].queueId = b]
           ELSE /\ bgs' = IF atBg THEN Without(b, {p}) ELSE bgs
                /\ pl' = [pl EXCEPT ![p].online = TRUE, ![p].bg = NoBg]
        /\ UNCHANGED <<config, queue, slots, events, updates, scheduled>>

-----------------------------------------------------------------------------
(* Battleground::Update. *)

(* Nobody is inside and nobody is invited: the battleground is deleted. *)
UpdateDelete(b) ==
    /\ Checked
    /\ Exists(b) /\ bgs[b].players = {}
    /\ \A t \in Teams : bgs[b].invited[t] = 0
    /\ bgs' = [bgs EXCEPT ![b] = NoBattleground]
    /\ slots' = RemoveFromFreeSlots(b)
    /\ UNCHANGED <<config, queue, pl, events, updates, scheduled>>

(* _ProcessJoin: the doors open. *)
ProcessJoin(b) ==
    /\ Checked
    /\ bgs[b].status = "join" /\ bgs[b].players # {}
    /\ bgs' = [bgs EXCEPT ![b].status = "progress"]
    /\ UNCHANGED <<config, queue, slots, pl, events, updates, scheduled>>

(* EndBattleground: one team wins, or has had too few players for too long; and
   EndNow in _ProcessJoin, when the map could not be set up. *)
EndBattleground(b) ==
    /\ Checked
    /\ Running(b) /\ bgs[b].players # {}
    /\ bgs' = [bgs EXCEPT ![b].status = "leave"]
    /\ slots' = RemoveFromFreeSlots(b)
    /\ UNCHANGED <<config, queue, pl, events, updates, scheduled>>

(* _ProcessOfflineQueue: the first one has been away for too long. *)
ProcessOfflineQueue(b) ==
    LET p == Head(bgs[b].offline)
    IN  /\ Checked
        /\ bgs[b].status = "progress"
        /\ bgs[b].offline # <<>> /\ p \in bgs[b].players
        /\ bgs' = [Without(b, {p}) EXCEPT ![b].offline = Tail(@)]
        /\ PlacesFreed(b)
        /\ UNCHANGED <<config, queue, pl, events, updates>>

(* _ProcessLeave: two minutes after the end everybody is removed. *)
ProcessLeave(b) ==
    /\ Checked
    /\ bgs[b].status = "leave" /\ bgs[b].players # {}
    /\ bgs' = Without(b, bgs[b].players)
    /\ pl' = Freed(bgs[b].players)
    /\ UNCHANGED <<config, queue, slots, events, updates, scheduled>>

-----------------------------------------------------------------------------
(* BattlegroundQueueUpdate.  s is the state as the update changes it. *)

(* SelectionPool::AddGroup: the group fits in ... *)
Fits(pool, g, desired) ==
    g.bg = NoBg /\ desired >= Count(pool) + Cardinality(g.players)

Add(pool, g, desired) == IF Fits(pool, g, desired) THEN Append(pool, g) ELSE pool

(* ... and whether the caller should go on. *)
GoOn(pool, g, desired) == Fits(pool, g, desired) \/ Count(pool) < desired

(* The groups are added one after the other until AddGroup says no; those that are
   invited are skipped, or stop the loop like any other (FillPlayersToBG). *)
Scan(pool, groups, desired, skip) ==
    FoldLeft(LAMBDA s, g :
                IF s.stop \/ (skip /\ g.bg # NoBg) THEN s
                ELSE [pool |-> Add(s.pool, g, desired),
                      stop |-> ~GoOn(s.pool, g, desired)],
             [pool |-> pool, stop |-> FALSE], groups).pool

Least(x, y) == IF x < y THEN x ELSE y
Diff(x, y) == IF x < y THEN y - x ELSE 0

\* Mutant: the size of the teams is not looked at.
GetFreeSlotsForTeam_NoLimit(bg, t) ==
    IF bg.status = "join" /\ config.balance = NoBalance THEN MaxPlayers
    ELSE IF bg.invited[Other(t)] = bg.invited[t] THEN 1
         ELSE Diff(bg.invited[t], bg.invited[Other(t)])

(* GetFreeSlotsForTeam. *)
GetFreeSlotsForTeam(bg, t) ==
    LET o == Other(t)
        inside(x) == Cardinality(Of(bg.players, x))
        room  == Diff(bg.invited[t], MaxPlayers)
        diff  == IF bg.invited[o] = bg.invited[t] THEN 1
                 ELSE Diff(bg.invited[t], bg.invited[o])
        diff3 == IF inside(o) = inside(t) THEN 1
                 ELSE IF inside(o) > inside(t) THEN inside(o) - inside(t)
                 ELSE IF bg.invited[t] <= MinPlayers
                      THEN MinPlayers - bg.invited[t] + 1 ELSE 0
    IN  IF bg.status = "join" /\ config.balance = NoBalance THEN room
        ELSE Least(diff, Least(room, diff3))

(* FillPlayersToBG.  The loop that kicks groups out of the pools again has nothing
   to do: unless the teams are not balanced at all, one team's free places are none,
   or both teams have one. *)
FillPlayersToBG(s, b) ==
    LET free(t) == GetFreeSlotsForTeam(s.bgs[b], t)
        extra(t) == Diff(Len(s.queue[<<"normal", Other(t)>>]), Len(s.queue[<<"normal", t>>]))
        even == config.balance = Even /\ \A t \in Teams : free(t) = 1
        places(t) == IF even THEN Diff(extra(t), 1) ELSE free(t)
    IN  [t \in Teams |-> Scan(<<>>, s.queue[<<"normal", t>>], places(t), FALSE)]

(* InviteGroupToBG for the groups of both pools. *)
InviteGroupsToBG(s, pools, b) ==
    LET chosen == Range(pools["alliance"]) \cup Range(pools["horde"])
        ps == UNION {g.players : g \in chosen}
        invited(g) == IF g \in chosen THEN [g EXCEPT !.bg = b, !.time = updates + 1]
                                      ELSE g
        connected(t) == Of(Online(ps), t)
    IN  [s EXCEPT
            !.queue = [l \in Lists |->
                [i \in 1..Len(s.queue[l]) |-> invited(s.queue[l][i])]],
            !.bgs[b].invited = [t \in Teams |-> @[t] + Cardinality(connected(t))],
            !.pl = [p \in Players |-> IF p \in ps THEN [s.pl[p] EXCEPT !.queueId = b]
                                                  ELSE s.pl[p]],
            !.events = @ \cup {[player |-> p, bg |-> b, time |-> updates + 1] : p \in ps}]

(* The battlegrounds with free slots first. *)
FillBg(s, b) ==
    LET filled == InviteGroupsToBG(s, FillPlayersToBG(s, b), b)
    IN  IF s.bgs[b].status \notin {"join", "progress"} THEN s
        ELSE IF Cardinality(s.bgs[b].players) < 2 * MaxPlayers THEN filled
        ELSE [filled EXCEPT !.slots = Keep(@, Bgs \ {b})]

(* CreateNewBattleground, InviteGroupToBG, StartBattleground.  full: the bound. *)
StartBg(s, pools) ==
    LET unused == {b \in Bgs : s.bgs[b].status = "none"}
        b == CHOOSE b \in unused : \A c \in unused : b <= c
    IN  IF unused = {} THEN [s EXCEPT !.full = TRUE]
        ELSE [InviteGroupsToBG([s EXCEPT !.bgs[b] = NewBattleground], pools, b)
                EXCEPT !.slots = <<b>> \o @]

Waiting(groups) == Keep(groups, {g \in Range(groups) : g.bg = NoBg})

(* CheckPremadeMatch: a premade group against a premade group, and who comes alone
   fills the smaller one's places. *)
PremadeMatch(s) == \A t \in Teams : Waiting(s.queue[<<"premade", t>>]) # <<>>

PremadePools(s) ==
    LET first == [t \in Teams |->
            Add(<<>>, Head(Waiting(s.queue[<<"premade", t>>])), MaxPlayers)]
        size == Least(Count(first["alliance"]), Count(first["horde"]))
    IN  [t \in Teams |-> Scan(first[t], s.queue[<<"normal", t>>], size, TRUE)]

(* No match: a premade group that is too small by now, or has waited long enough
   (old), goes to the front of the normal queue. *)
PremadeToNormal(s, old) ==
    LET first(t) == Head(s.queue[<<"premade", t>>])
        moves(t) == /\ s.queue[<<"premade", t>>] # <<>>
                    /\ first(t).bg = NoBg
                    /\ t \in old \/ Cardinality(first(t).players) < MinPlayers
    IN  [s EXCEPT !.queue = [l \in Lists |->
            CASE ~moves(l[2]) -> @[l]
              [] moves(l[2]) /\ l[1] = "premade" -> Tail(@[l])
              [] moves(l[2]) /\ l[1] = "normal"  -> <<first(l[2])>> \o @[l]]]

(* The first groups that are enough players, and the groups after them. *)
Enough(groups) ==
    FoldLeft(LAMBDA r, g :
                IF Count(r.pool) >= MinPlayers THEN [r EXCEPT !.rest = Append(@, g)]
                ELSE IF g.bg # NoBg THEN r
                ELSE [r EXCEPT !.pool = Add(@, g, MaxPlayers)],
             [pool |-> <<>>, rest |-> <<>>], groups)

(* CheckNormalMatch: enough players of each team; the smaller pool is topped up. *)
NormalPools(s) ==
    LET first == [t \in Teams |-> Enough(s.queue[<<"normal", t>>])]
        few == IF Count(first["horde"].pool) < Count(first["alliance"].pool)
               THEN "horde" ELSE "alliance"
        top == Scan(first[few].pool, first[few].rest,
                    Count(first[Other(few)].pool), TRUE)
        both == \A t \in Teams : Count(first[t].pool) >= MinPlayers
    IN  [t \in Teams |-> IF both /\ config.balance # NoBalance /\ t = few
                         THEN top ELSE first[t].pool]

NormalMatch(pools) ==
    /\ \A t \in Teams : Count(pools[t]) >= MinPlayers
    /\ config.balance # NoBalance => \A t \in Teams : Count(pools[t]) <= Count(pools[Other(t)]) + 2

PremadeStep(s, old) ==
    IF PremadeMatch(s) THEN StartBg(s, PremadePools(s)) ELSE PremadeToNormal(s, old)

NormalStep(s) ==
    LET pools == NormalPools(s) IN IF NormalMatch(pools) THEN StartBg(s, pools) ELSE s

(* The whole update; old: the teams whose first premade group has waited enough. *)
Updated(old) ==
    LET s0 == [queue |-> queue, bgs |-> bgs, slots |-> slots, pl |-> pl,
               events |-> events, full |-> FALSE]
    IN  IF InQueue = {} THEN s0
        ELSE NormalStep(PremadeStep(FoldLeft(FillBg, s0, slots), old))

QueueUpdate(old) ==
    /\ Checked
    /\ scheduled
    /\ scheduled' = FALSE
    /\ \E s \in {Updated(old)} :
        /\ ~s.full
        /\ updates' = IF s.events = events THEN updates ELSE updates + 1
        /\ updates' <= MaxUpdates
        /\ queue' = s.queue /\ bgs' = s.bgs /\ slots' = s.slots
        /\ pl' = s.pl /\ events' = s.events
    /\ UNCHANGED config

-----------------------------------------------------------------------------
PlayerStep(p) ==
    \/ JoinAlone(p) \/ PortAccept(p) \/ PortDecline(p)
    \/ HandleMoveWorldportAck(p) \/ LeaveBattleground(p)
    \/ Logout(p) \/ Login(p)

BgStep(b) ==
    \/ UpdateDelete(b) \/ ProcessJoin(b) \/ EndBattleground(b)
    \/ ProcessOfflineQueue(b) \/ ProcessLeave(b)

Next ==
    \/ \E p \in Players : PlayerStep(p)
    \/ \E party \in Parties : JoinAsGroup(party)
    \/ \E b \in Bgs : BgStep(b)
    \/ RemoveEvents
    \/ \E old \in SUBSET {t \in Teams : queue[<<"premade", t>>] # <<>>} : QueueUpdate(old)

Spec == Init /\ [][Next]_vars

(* The timeouts are events of the manager, the end of a battleground is a timer of
   its own, and a client that does not come through the loading screen is logged
   out, which makes its player arrive first. *)
Fairness ==
    /\ \A p \in Players : WF_vars(HandleMoveWorldportAck(p))
    /\ \A b \in Bgs : WF_vars(ProcessLeave(b)) /\ WF_vars(UpdateDelete(b))
    /\ WF_vars(RemoveEvents)

FairSpec == Spec /\ Fairness

-----------------------------------------------------------------------------
(* The places of a battleground are counted right: its invited count of a team is
   the number of players who have an unanswered invitation to it, are on their way
   to it, or are inside, offline or not.  Were it too high, the battleground would
   never be deleted; were it too low, it would be deleted under its players.  This
   is so until a group joins unchecked, which loses the invitations of its members. *)
InvitedExact ==
    unchecked \/ \A b \in Bgs, t \in Teams :
        bgs[b].invited[t] =
            Cardinality({p \in Of(Players, t) :
                \/ InvitedTo(b, p)
                \/ pl[p].transit /\ pl[p].bg = b
                \/ p \in bgs[b].players})

(* No team is ever promised more places than the battleground has. *)
TeamsFit == \A b \in Bgs, t \in Teams : bgs[b].invited[t] <= MaxPlayers

(* The queue and the players agree: who is queued is online, outside every
   battleground, in exactly one group, on his team's list, and his queue slot names
   the battleground his group is invited to; and who holds a queue slot is queued,
   or belongs to the battleground that the slot names, which exists.  This is so
   until a group joins unchecked. *)
QueueAgrees ==
    LET holders(p) == UNION {{l} \X {i \in 1..Len(queue[l]) : p \in queue[l][i].players} :
                             l \in Lists}
    IN  unchecked \/ \A p \in Players :
            /\ p \in InQueue =>
                /\ Cardinality(holders(p)) = 1
                /\ \A h \in holders(p) : h[1][2] = Team[p]
                /\ InWorld(p) /\ pl[p].bg = NoBg
                /\ pl[p].queueId = GroupOf(p).bg
            /\ pl[p].queueId # NoQueue /\ p \notin InQueue =>
                pl[p].queueId = pl[p].bg /\ Exists(pl[p].bg)

(* A running battleground that is not full is offered to the queue: it was taken
   out of the free slot queue when it was full, and is back once a player left. *)
SlotsOffered ==
    \A b \in Bgs :
        Running(b) /\ Cardinality(bgs[b].players) < 2 * MaxPlayers
            => b \in Range(slots)

(* A battleground that is over goes away, whatever its players do: those inside are
   removed, those on their way arrive and are removed, those invited accept or lose
   the invitation.  Nothing is said once a group has joined unchecked. *)
EndedGone ==
    \A b \in Bgs : bgs[b].status = "leave" ~> bgs[b].status = "none" \/ unchecked

(* Group.cpp:1842: "don't let join if someone from the group is already in that bg
   queue".  A player is in one group of the queue at most.  The code does not keep
   this: a group that is larger than MaxGroupSize passes without the check. *)
InOneGroup ==
    \A p \in Players :
        Cardinality(UNION {{l} \X {i \in 1..Len(queue[l]) : p \in queue[l][i].players} :
                           l \in Lists}) <= 1

=============================================================================
