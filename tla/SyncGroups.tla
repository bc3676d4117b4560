----------------------------- MODULE SyncGroups -----------------------------
(* Which players are grouped with which: the sync_master and sync_slaves    *)
(* fields of the registered players, and the operations of PlayerManager    *)
(* that keep them. Every operation runs without an await, so each is one    *)
(* action. A player is named by the MAC it registered under.                *)
EXTENDS Naturals

CONSTANTS
    Players,
    None,
    MaxEntries      \* bound: how often one player may stand in another's sync_slaves

ASSUME PlayersAssumption == None \notin Players
ASSUME EntriesAssumption == MaxEntries \in Nat \ {0}

VARIABLES
    known,          \* PlayerManager.players
    groups          \* sync_master of each player, and how often each other one
                    \* stands in its sync_slaves (the order is never read)

vars == <<known, groups>>

Nobody == [s \in Players |-> 0]

Fresh == [master |-> [p \in Players |-> None], slaves |-> [p \in Players |-> Nobody]]

Groups ==
    [master : [Players -> Players \cup {None}],
     slaves : [Players -> [Players -> Nat]]]

\* A player that is not registered has no PlayerState, so it is in no group.
TypeOK ==
    /\ known \subseteq Players
    /\ groups \in Groups
    /\ \A p \in Players \ known : groups.master[p] = None /\ groups.slaves[p] = Nobody

Init == known = {} /\ groups = Fresh

\* The registered players that stand in the list of m.
Listed(g, m) == {s \in known : g.slaves[m][s] > 0}

\* One entry of p leaves the list of m, if m is registered and has one.
Struck(g, m, p) ==
    IF m \in known /\ g.slaves[m][p] > 0 THEN [g EXCEPT !.slaves[m][p] = @ - 1] ELSE g

\* The players that m lists are nobody's slaves any more, and its list is empty.
Dissolved(g, m) ==
    [master |-> [p \in Players |-> IF p \in Listed(g, m) THEN None ELSE g.master[p]],
     slaves |-> [g.slaves EXCEPT ![m] = Nobody]]

\* unsync_player: a slave leaves its master, otherwise a master gives up its group.
Unsynced(g, p) ==
    IF p \notin known THEN g
    ELSE IF g.master[p] # None
    THEN [Struck(g, g.master[p], p) EXCEPT !.master[p] = None]
    ELSE Dissolved(g, p)

\* The test before a slave is taken off the list of its former master: it asks
\* for the new master, not for the slave.
LeavesOld(g, m, s) == g.slaves[g.master[s]][m] > 0

\* What sync_players(m, [s]) does with s once m itself is free.
Attached(g, m, s) ==
    LET left == IF g.master[s] \in known /\ LeavesOld(g, m, s)
                THEN Struck(g, g.master[s], s) ELSE g
    IN  [left EXCEPT !.master[s] = m, !.slaves[m][s] = @ + 1]

\* Mutant: the player that becomes a master stays in the group it was in.
Synced_KeepsMaster(g, m, s) ==
    IF m \notin known \/ s = m \/ s \notin known THEN g ELSE Attached(g, m, s)

\* sync_players(m, [s])
Synced(g, m, s) ==
    LET free == Unsynced(g, m)
    IN  IF m \notin known THEN g
        ELSE IF s = m \/ s \notin known THEN free
        ELSE Attached(free, m, s)

-----------------------------------------------------------------------------
\* register_player: a player that was forgotten starts with a new PlayerState.
Register(p) ==
    /\ p \notin known
    /\ known' = known \cup {p}
    /\ UNCHANGED groups

\* Mutant: a forgotten master leaves its slaves pointing at it.
Unregister_LeavesSlaves(p) ==
    /\ p \in known
    /\ known' = known \ {p}
    /\ groups' = [Struck(groups, groups.master[p], p) EXCEPT !.master[p] = None,
                                                              !.slaves[p] = Nobody]

\* Mutant: a forgotten player keeps the master it had.
Unregister_KeepsMaster(p) ==
    /\ p \in known
    /\ known' = known \ {p}
    /\ groups' = Dissolved(groups, p)

\* unregister_player, when the grace period of a lost player has passed. The
\* player is out of the registry before its group is broken up.
Unregister(p) ==
    /\ p \in known
    /\ known' = known \ {p}
    /\ groups' = [Struck(Dissolved(groups, p), groups.master[p], p) EXCEPT !.master[p] = None]

\* The bound: nobody stands in one list more often than MaxEntries.
WithinBound == \A m, s \in Players : groups'.slaves[m][s] <= MaxEntries

\* "sync" on the command line, and the choice of another player on the
\* settings page.
Sync(m, s) ==
    /\ groups' = Synced(groups, m, s)
    /\ WithinBound
    /\ UNCHANGED known

\* "unsync", "sync -", and "no synchronization" on the settings page.
Unsync(p) ==
    /\ groups' = Unsynced(groups, p)
    /\ UNCHANGED known

\* The Jive menu: leave the group one is in, then join another player.
Regroup(p, s) ==
    /\ p \in known /\ s \in known
    /\ groups' = Synced(Unsynced(groups, p), p, s)
    /\ WithinBound
    /\ UNCHANGED known

Next ==
    \E p \in Players :
        \/ Register(p) \/ Unregister(p) \/ Unsync(p)
        \/ \E s \in Players : Sync(p, s) \/ Regroup(p, s)

Spec == Init /\ [][Next]_vars

-----------------------------------------------------------------------------
\* A player that names a master is in that master's list, and the master is
\* registered: whatever was grouped, left and forgotten before, a slave is
\* found by its master, and list.remove in sync_players cannot raise.
FollowerListed ==
    \A p \in known :
        LET m == groups.master[p]
        IN  m # None => m \in known /\ groups.slaves[m][p] > 0

\* Going from a player to its master and on to that one's master ends: no set
\* of players has all its masters among themselves. A loop would make a group
\* without anybody who owns the stream.
NoLoop ==
    ~ \E S \in SUBSET Players : S # {} /\ \A p \in S : groups.master[p] \in S

\* sync_players says that it removes a player "from any existing sync group"
\* before it adds it to the new one (manager.py:1816): a list then holds only
\* players that name its owner as their master.
ListedFollows ==
    \A m, s \in known : groups.slaves[m][s] > 0 => groups.master[s] = m

=============================================================================
