------------------------- MODULE SyncGroups_proofs -------------------------
(* Proofs about SyncGroups, for every set of players: a slave is always in  *)
(* the list of its master, and masters never form a loop.                   *)
EXTENDS SyncGroups, TLAPS

\* The parts of the invariant, for any groups among the registered players.
Linked(g) ==
    \A p \in known :
        g.master[p] # None => g.master[p] \in known /\ g.slaves[g.master[p]][p] > 0

Blank(g) == \A p \in Players \ known : g.master[p] = None /\ g.slaves[p] = Nobody

Rooted(g) == ~ \E S \in SUBSET Players : S # {} /\ \A p \in S : g.master[p] \in S

Sound(g) == g \in Groups /\ Linked(g) /\ Blank(g) /\ Rooted(g)

Inv == TypeOK /\ FollowerListed /\ NoLoop

LEMMA InvSound == Inv <=> known \subseteq Players /\ Sound(groups)
BY DEF Inv, TypeOK, FollowerListed, NoLoop, Sound, Linked, Blank, Rooted

\* Taking masters away makes no loop.
LEMMA FewerMasters ==
    ASSUME NEW g \in Groups, NEW h \in Groups, Rooted(g),
           \A p \in Players : h.master[p] \in {g.master[p], None}
    PROVE  Rooted(h)
<1> SUFFICES ASSUME NEW S \in SUBSET Players, S # {}, \A p \in S : h.master[p] \in S
             PROVE  FALSE
  BY DEF Rooted
<1>1. \A p \in S : h.master[p] = g.master[p]
  BY PlayersAssumption
<1> QED
  BY <1>1 DEF Rooted

LEMMA StruckEffect ==
    ASSUME NEW g \in Groups, NEW m \in Players \cup {None}, NEW p \in Players,
           known \subseteq Players
    PROVE  /\ Struck(g, m, p) \in Groups
           /\ Struck(g, m, p).master = g.master
           /\ \A n, q \in Players : q # p => Struck(g, m, p).slaves[n][q] = g.slaves[n][q]
           /\ \A n \in Players : n \notin known => Struck(g, m, p).slaves[n] = g.slaves[n]
<1>1. CASE m \in known /\ g.slaves[m][p] > 0
  <2>1. m \in Players /\ g.slaves[m][p] \in Nat /\ g.slaves[m][p] - 1 \in Nat
    BY <1>1 DEF Groups
  <2>2. Struck(g, m, p) = [g EXCEPT !.slaves = [g.slaves EXCEPT ![m] =
                              [g.slaves[m] EXCEPT ![p] = g.slaves[m][p] - 1]]]
    BY <1>1, <2>1 DEF Struck, Groups
  <2> DEFINE row == [g.slaves[m] EXCEPT ![p] = g.slaves[m][p] - 1]
             lists == [g.slaves EXCEPT ![m] = row]
  <2>3. row \in [Players -> Nat] /\ \A q \in Players : q # p => row[q] = g.slaves[m][q]
    BY <2>1 DEF Groups
  <2> HIDE DEF row
  <2>4. /\ lists \in [Players -> [Players -> Nat]]
        /\ \A n, q \in Players : q # p => lists[n][q] = g.slaves[n][q]
        /\ \A n \in Players : n # m => lists[n] = g.slaves[n]
    BY <2>1, <2>3 DEF Groups
  <2>5. Struck(g, m, p) = [g EXCEPT !.slaves = lists]
    BY <2>2 DEF row
  <2> HIDE DEF lists
  <2> QED
    BY <1>1, <2>4, <2>5 DEF Groups
<1>2. CASE ~(m \in known /\ g.slaves[m][p] > 0)
  BY <1>2 DEF Struck
<1> QED
  BY <1>1, <1>2

LEMMA DissolvedEffect ==
    ASSUME NEW g \in Groups, NEW m \in Players
    PROVE  /\ Dissolved(g, m) \in Groups
           /\ \A p \in Players : Dissolved(g, m).master[p] =
                                   IF p \in known /\ g.slaves[m][p] > 0 THEN None ELSE g.master[p]
           /\ Dissolved(g, m).slaves[m] = Nobody
           /\ \A n \in Players : n # m => Dissolved(g, m).slaves[n] = g.slaves[n]
<1>1. Nobody \in [Players -> Nat]
  BY DEF Nobody
<1>2. Dissolved(g, m).slaves = [g.slaves EXCEPT ![m] = Nobody]
  BY DEF Dissolved
<1>3. Dissolved(g, m).master = [p \in Players |-> IF p \in Listed(g, m) THEN None ELSE g.master[p]]
  BY DEF Dissolved
<1>4. \A p \in Players : p \in Listed(g, m) <=> p \in known /\ g.slaves[m][p] > 0
  BY DEF Listed
<1> QED
  BY <1>1, <1>2, <1>3, <1>4 DEF Dissolved, Groups

-----------------------------------------------------------------------------
\* Leaving a group keeps the groups sound, and the player has no master.
LEMMA UnsyncedSound ==
    ASSUME NEW g, known \subseteq Players, Sound(g), NEW p \in Players
    PROVE  Sound(Unsynced(g, p)) /\ Unsynced(g, p).master[p] = None
<1> DEFINE m == g.master[p]
           h == Unsynced(g, p)
<1>0. g \in Groups /\ Linked(g) /\ Blank(g) /\ Rooted(g) /\ m \in Players \cup {None}
  BY DEF Sound, Groups
<1>1. CASE p \notin known
  BY <1>0, <1>1 DEF Unsynced, Blank
<1>2. CASE p \in known /\ m # None
  <2> DEFINE s == Struck(g, m, p)
  <2>1. /\ s \in Groups /\ s.master = g.master
        /\ \A n, q \in Players : q # p => s.slaves[n][q] = g.slaves[n][q]
        /\ \A n \in Players : n \notin known => s.slaves[n] = g.slaves[n]
    BY <1>0, StruckEffect
  <2>2. h = [s EXCEPT !.master[p] = None]
    BY <1>2 DEF Unsynced
  <2> HIDE DEF s, h
  <2>3. /\ h \in Groups /\ h.slaves = s.slaves /\ h.master[p] = None
        /\ \A q \in Players : q # p => h.master[q] = g.master[q]
    BY <2>1, <2>2 DEF Groups
  <2>4. Rooted(h)
    BY <1>0, <2>3, FewerMasters
  <2>5. Linked(h)
    BY <1>0, <2>1, <2>3 DEF Linked, Groups
  <2>6. Blank(h)
    BY <1>0, <1>2, <2>1, <2>3 DEF Blank
  <2> QED
    BY <2>3, <2>4, <2>5, <2>6 DEF Sound, h
<1>3. CASE p \in known /\ m = None
  <2>1. h = Dissolved(g, p)
    BY <1>3 DEF Unsynced
  <2> HIDE DEF h
  <2>2. /\ h \in Groups /\ h.slaves[p] = Nobody
        /\ \A q \in Players : h.master[q] =
                                IF q \in known /\ g.slaves[p][q] > 0 THEN None ELSE g.master[q]
        /\ \A n \in Players : n # p => h.slaves[n] = g.slaves[n]
    BY <1>0, <2>1, DissolvedEffect
  <2>3. Rooted(h)
    BY <1>0, <2>2, FewerMasters
  <2>4. Linked(h)
    BY <1>0, <2>2 DEF Linked, Groups
  <2>5. Blank(h)
    BY <1>0, <1>3, <2>2 DEF Blank
  <2> QED
    BY <1>3, <2>2, <2>3, <2>4, <2>5 DEF Sound, h
<1> QED
  BY <1>1, <1>2, <1>3

\* So does giving a player a master that has none itself.
LEMMA AttachedSound ==
    ASSUME NEW g, known \subseteq Players, Sound(g), NEW m \in known, NEW s \in known, s # m,
           g.master[m] = None
    PROVE  Sound(Attached(g, m, s))
<1> DEFINE left == IF g.master[s] \in known /\ LeavesOld(g, m, s)
                   THEN Struck(g, g.master[s], s) ELSE g
           h == Attached(g, m, s)
<1>0. /\ g \in Groups /\ Linked(g) /\ Blank(g) /\ Rooted(g)
      /\ m \in Players /\ s \in Players /\ g.master[s] \in Players \cup {None}
  BY DEF Sound, Groups
<1>1. /\ left \in Groups /\ left.master = g.master
      /\ \A n, q \in Players : q # s => left.slaves[n][q] = g.slaves[n][q]
      /\ \A n \in Players : n \notin known => left.slaves[n] = g.slaves[n]
  <2> DEFINE t == Struck(g, g.master[s], s)
  <2>1. /\ t \in Groups /\ t.master = g.master
        /\ \A n, q \in Players : q # s => t.slaves[n][q] = g.slaves[n][q]
        /\ \A n \in Players : n \notin known => t.slaves[n] = g.slaves[n]
    BY <1>0, StruckEffect
  <2>2. left = t \/ left = g
    OBVIOUS
  <2> HIDE DEF t, left
  <2> QED
    BY <1>0, <2>1, <2>2
<1>2. h = [left EXCEPT !.master[s] = m, !.slaves[m][s] = @ + 1]
  BY DEF Attached
<1> HIDE DEF left, h
<1>3. left.slaves[m] \in [Players -> Nat] /\ left.slaves[m][s] + 1 \in Nat \ {0}
  BY <1>0, <1>1 DEF Groups
<1>4. /\ h.master = [left.master EXCEPT ![s] = m]
      /\ h.slaves = [left.slaves EXCEPT ![m] = [left.slaves[m] EXCEPT ![s] = left.slaves[m][s] + 1]]
      /\ h \in Groups
  BY <1>0, <1>1, <1>2, <1>3 DEF Groups
<1>5. /\ h.master[s] = m /\ h.slaves[m][s] > 0
      /\ \A q \in Players : q # s => h.master[q] = g.master[q]
      /\ \A n, q \in Players : q # s => h.slaves[n][q] = g.slaves[n][q]
      /\ \A n \in Players : n # m => h.slaves[n] = left.slaves[n]
  BY <1>0, <1>1, <1>3, <1>4 DEF Groups
<1>6. Linked(h)
  BY <1>0, <1>5 DEF Linked, Groups
<1>7. Blank(h)
  BY <1>0, <1>1, <1>5 DEF Blank
<1>8. Rooted(h)
  <2> SUFFICES ASSUME NEW S \in SUBSET Players, S # {}, \A p \in S : h.master[p] \in S
               PROVE  FALSE
    BY DEF Rooted
  <2>1. s \notin S
    BY <1>0, <1>5, PlayersAssumption
  <2>2. \A p \in S : g.master[p] \in S
    BY <1>5, <2>1
  <2> QED
    BY <1>0, <2>2 DEF Rooted
<1> QED
  BY <1>4, <1>6, <1>7, <1>8 DEF Sound, h

LEMMA SyncedSound ==
    ASSUME NEW g, known \subseteq Players, Sound(g), NEW m \in Players, NEW s \in Players
    PROVE  Sound(Synced(g, m, s))
BY UnsyncedSound, AttachedSound DEF Synced

-----------------------------------------------------------------------------
LEMMA UnregisterInv ==
    ASSUME Inv, NEW p \in Players, Unregister(p)
    PROVE  Inv'
<1> DEFINE m == groups.master[p]
           d == Dissolved(groups, p)
           s == Struck(d, m, p)
<1>0. /\ known \subseteq Players /\ groups \in Groups /\ Linked(groups) /\ Blank(groups)
      /\ Rooted(groups) /\ p \in known /\ m \in Players \cup {None}
  BY InvSound DEF Sound, Groups, Unregister
<1>1. /\ d \in Groups /\ d.slaves[p] = Nobody
      /\ \A q \in Players : d.master[q] =
              IF q \in known /\ groups.slaves[p][q] > 0 THEN None ELSE groups.master[q]
      /\ \A n \in Players : n # p => d.slaves[n] = groups.slaves[n]
  BY <1>0, DissolvedEffect
<1> HIDE DEF d
<1>2. /\ s \in Groups /\ s.master = d.master
      /\ \A n, q \in Players : q # p => s.slaves[n][q] = d.slaves[n][q]
      /\ \A n \in Players : n \notin known => s.slaves[n] = d.slaves[n]
  BY <1>0, <1>1, StruckEffect
<1>3. m # p
  <2> SUFFICES ASSUME m = p PROVE FALSE
    OBVIOUS
  <2>1. {p} \in SUBSET Players /\ {p} # {} /\ \A q \in {p} : groups.master[q] \in {p}
    OBVIOUS
  <2> QED
    BY <1>0, <2>1 DEF Rooted
<1>4. s.slaves[p] = Nobody
  <2>1. m \in known => d.slaves[m] \in [Players -> Nat] /\ d.slaves \in [Players -> [Players -> Nat]]
    BY <1>0, <1>1 DEF Groups
  <2> QED
    BY <1>0, <1>1, <1>3, <2>1 DEF Struck, Groups
<1>5. known' = known \ {p} /\ groups' = [s EXCEPT !.master[p] = None]
  BY DEF Unregister, d
<1> HIDE DEF s
<1>6. /\ groups' \in Groups /\ groups'.slaves = s.slaves /\ groups'.master[p] = None
      /\ \A q \in Players : q # p => groups'.master[q] = d.master[q]
  BY <1>2, <1>5 DEF Groups
<1>7. TypeOK'
  <2>1. \A q \in Players \ known' : groups'.master[q] = None /\ groups'.slaves[q] = Nobody
    BY <1>0, <1>1, <1>2, <1>4, <1>5, <1>6 DEF Blank
  <2> QED
    BY <1>0, <1>5, <1>6, <2>1 DEF TypeOK, Nobody
<1>8. FollowerListed'
  BY <1>0, <1>1, <1>2, <1>5, <1>6 DEF Linked, FollowerListed, Groups
<1>9. NoLoop'
  <2>1. \A q \in Players : groups'.master[q] \in {groups.master[q], None}
    BY <1>1, <1>6
  <2> QED
    BY <1>0, <1>6, <2>1, FewerMasters DEF Rooted, NoLoop
<1> QED
  BY <1>7, <1>8, <1>9 DEF Inv

LEMMA RegisterInv ==
    ASSUME Inv, NEW p \in Players, Register(p)
    PROVE  Inv'
<1>1. TypeOK' /\ NoLoop'
  BY DEF Inv, Register, TypeOK, NoLoop
<1>2. FollowerListed'
  BY DEF Inv, Register, TypeOK, FollowerListed
<1> QED
  BY <1>1, <1>2 DEF Inv

\* The commands change the groups and not who is registered.
LEMMA CommandInv ==
    ASSUME Inv, UNCHANGED known, Sound(groups')
    PROVE  Inv'
BY InvSound DEF Inv, TypeOK, FollowerListed, NoLoop, Sound, Linked, Blank, Rooted, Nobody

LEMMA NextInv ==
    ASSUME Inv, [Next]_vars
    PROVE  Inv'
<1>0. known \subseteq Players /\ Sound(groups)
  BY InvSound
<1>1. ASSUME NEW p \in Players, Unsync(p)
      PROVE  Inv'
  BY <1>0, <1>1, UnsyncedSound, CommandInv DEF Unsync
<1>2. ASSUME NEW p \in Players, NEW s \in Players, Sync(p, s)
      PROVE  Inv'
  BY <1>0, <1>2, SyncedSound, CommandInv DEF Sync
<1>3. ASSUME NEW p \in Players, NEW s \in Players, Regroup(p, s)
      PROVE  Inv'
  BY <1>0, <1>3, UnsyncedSound, SyncedSound, CommandInv DEF Regroup
<1>4. CASE UNCHANGED vars
  BY <1>4 DEF vars, Inv, TypeOK, FollowerListed, NoLoop
<1> QED
  BY <1>1, <1>2, <1>3, <1>4, RegisterInv, UnregisterInv DEF Next

THEOREM Invariance == Spec => []Inv
<1>1. Init => Inv
  <2> SUFFICES ASSUME Init PROVE Inv
    OBVIOUS
  <2>1. groups.master = [p \in Players |-> None] /\ groups.slaves = [p \in Players |-> Nobody]
    BY DEF Init, Fresh
  <2>2. TypeOK
    BY <2>1 DEF Init, Fresh, TypeOK, Groups, Nobody
  <2> QED
    BY <2>1, <2>2, PlayersAssumption DEF Init, Inv, FollowerListed, NoLoop
<1>2. Inv /\ [Next]_vars => Inv'
  BY NextInv
<1> QED
  BY <1>1, <1>2, PTL DEF Spec

\* Masters and lists of slaves name players only, for any number of players.
THEOREM TypeCorrect == Spec => []TypeOK
BY Invariance, PTL DEF Inv

\* Whatever is grouped, left and forgotten, by any number of players, a slave
\* is in the list of its master, and that master is registered.
THEOREM FollowersListed == Spec => []FollowerListed
BY Invariance, PTL DEF Inv

\* Players never become each other's masters in a circle.
THEOREM NeverLoops == Spec => []NoLoop
BY Invariance, PTL DEF Inv
=============================================================================
