---------------------------- MODULE XDSWaitProofs ----------------------------
(***************************************************************************)
(* Proof that Wait leaves no completion of its group behind, whatever the  *)
(* streams, the client and the other callers do meanwhile, for any         *)
(* resources, groups, interests and bounds.                                *)
(***************************************************************************)
EXTENDS XDS, TLAPS, NaturalsInduction, WellFoundedInduction

Statuses == {"free", "wait", "ok", "nack", "ctx", "cancel"}

\* The records keep their fields; which versions the completions and which revert
\* functions the groups hold does not matter here.
Completion(V) == [status : Statuses, group : Groups \cup {Nil}, version : V,
                  name : Names \cup {Nil}, rest : SUBSET Names, node : BOOLEAN]
Group(U) == [state : {"open", "waiting", "revert", "returned"}, ctx : {"live", "done", "late"},
             undo : U]

CompShape == \E V : comp \in [CompIDs -> Completion(V)]
GroupShape == \E U : group \in [Groups -> Group(U)]
Shape == CompShape /\ GroupShape /\ pendingComps \subseteq CompIDs

\* The mutator only keeps completions that wait or that Wait has completed.
PendingOpen == \A c \in pendingComps : comp[c].status \in {"wait", "ctx"}

\* A completion without a group is unused.
FreeUnowned == \A c \in CompIDs : comp[c].status = "free" => comp[c].group = Nil

\* Only Wait completes with the error of the context, and only a context that is done.
LateWaits ==
    \A c \in CompIDs : comp[c].status = "ctx" =>
        \A g \in Groups : comp[c].group = g => group[g].ctx # "live" /\ group[g].state # "open"

WaitInv == Shape /\ PendingOpen /\ FreeUnowned /\ LateWaits /\ WaitSound

-----------------------------------------------------------------------------
(* The completion a mutation takes.                                        *)

LEMMA NextFree ==
  ASSUME Free # {}
  PROVE  NextComp \in Free
<1>1. Free \subseteq Nat
  BY CompsNatural DEF Free, CompIDs
<1> DEFINE R == OpToRel(<, Nat)
<1>2. IsWellFoundedOn(R, Nat)
  BY NatLessThanWellFounded
<1>3. \A c, d \in Nat : d < c => <<d, c>> \in R
  BY DEF OpToRel
<1> HIDE DEF R
<1>4. PICK c \in Free : \A d \in Free : ~(<<d, c>> \in R)
  BY <1>1, <1>2, WFMin
<1>5. ASSUME NEW d \in Free, ~(c <= d) PROVE FALSE
  <2>1. c \in Nat /\ d \in Nat /\ d < c
    BY <1>1, <1>5
  <2> QED
    BY <2>1, <1>3, <1>4
<1> QED
  BY <1>5 DEF NextComp

-----------------------------------------------------------------------------
(* Preservation.                                                           *)

\* A mutation adds at most one completion, to a group whose owner has not called Wait.
LEMMA AddedKeeps ==
  ASSUME WaitInv, NEW g \in Groups \cup {Nil}, MayAdd(g), NEW n \in Names \cup {Nil},
         NEW rest \in SUBSET Names, NEW V, NEW old \in [CompIDs -> Completion(V)],
         \A c \in CompIDs : old[c].status = comp[c].status /\ old[c].group = comp[c].group,
         NEW ps \in SUBSET pendingComps,
         \/ comp' = old /\ pendingComps' = ps
         \/ /\ g # Nil
            /\ comp' = [old EXCEPT ![NextComp] = Pending(g, n, rest)]
            /\ pendingComps' = ps \cup {NextComp},
         GroupShape',
         \A h \in Groups : group'[h].state = group[h].state /\ group'[h].ctx = group[h].ctx
  PROVE  WaitInv'
<1>0. pendingComps \subseteq CompIDs
  BY DEF WaitInv, Shape
<1>1. CASE comp' = old /\ pendingComps' = ps
  <2>1. Shape'
    BY <1>0, <1>1 DEF Shape, CompShape
  <2>2. PendingOpen'
    BY <1>0, <1>1 DEF PendingOpen, WaitInv
  <2>3. FreeUnowned'
    BY <1>1 DEF FreeUnowned, WaitInv
  <2>4. LateWaits'
    BY <1>1 DEF LateWaits, WaitInv
  <2>5. WaitSound'
    BY <1>1 DEF WaitSound, OfGroup, Completed, WaitInv
  <2> QED
    BY <2>1, <2>2, <2>3, <2>4, <2>5 DEF WaitInv
<1>2. CASE /\ g # Nil
           /\ comp' = [old EXCEPT ![NextComp] = Pending(g, n, rest)]
           /\ pendingComps' = ps \cup {NextComp}
  <2>1. NextComp \in CompIDs /\ g \in Groups /\ group[g].state = "open"
    BY <1>2, NextFree DEF MayAdd, Free
  <2> DEFINE nc == NextComp
             V1 == V \cup {version'}
  <2>2. Pending(g, n, rest) \in Completion(V1)
    BY <2>1 DEF Pending, Completion, Statuses
  <2>3. old \in [CompIDs -> Completion(V1)]
    BY DEF Completion
  <2> HIDE DEF nc, V1
  <2>4. /\ comp' \in [CompIDs -> Completion(V1)]
        /\ comp'[nc] = Pending(g, n, rest)
        /\ \A c \in CompIDs \ {nc} : comp'[c] = old[c]
        /\ pendingComps' = ps \cup {nc} /\ nc \in CompIDs
    BY <1>2, <2>1, <2>2, <2>3 DEF nc
  <2>5. Shape'
    BY <1>0, <2>4 DEF Shape, CompShape
  <2>6. PendingOpen'
    BY <1>0, <2>4 DEF PendingOpen, Pending, WaitInv
  <2>7. FreeUnowned'
    BY <2>4 DEF FreeUnowned, Pending, WaitInv
  <2>8. LateWaits'
    BY <2>4 DEF LateWaits, Pending, WaitInv
  <2>9. WaitSound'
    BY <2>1, <2>4 DEF WaitSound, OfGroup, Completed, Pending, WaitInv
  <2> QED
    BY <2>5, <2>6, <2>7, <2>8, <2>9 DEF WaitInv
<1> QED
  BY <1>1, <1>2

\* The revert function a mutation adds does not change the state of a group.
LEMMA UndoShape ==
  ASSUME WaitInv, NEW g \in Groups \cup {Nil}, NEW n, PushUndo(g, n)
  PROVE  /\ GroupShape'
         /\ \A h \in Groups : group'[h].state = group[h].state /\ group'[h].ctx = group[h].ctx
<1>1. PICK U : group \in [Groups -> Group(U)]
  BY DEF WaitInv, Shape, GroupShape
<1>2. CASE group' = group
  BY <1>1, <1>2 DEF GroupShape
<1>3. CASE g \in Groups /\ group' # group
  <2> DEFINE u == <<[name |-> n, val |-> resources[n].val]>> \o group[g].undo
             U1 == U \cup {u}
  <2>1. group' = [group EXCEPT ![g] = [group[g] EXCEPT !.undo = u]]
    BY <1>3 DEF PushUndo
  <2> HIDE DEF u
  <2>2. group' \in [Groups -> Group(U1)]
    BY <1>1, <1>3, <2>1 DEF Group
  <2>3. \A h \in Groups : group'[h].state = group[h].state /\ group'[h].ctx = group[h].ctx
    BY <1>1, <1>3, <2>1 DEF Group
  <2> HIDE DEF U1
  <2> QED
    BY <2>2, <2>3 DEF GroupShape
<1> QED
  BY <1>2, <1>3 DEF PushUndo

LEMMA UpsertKeeps ==
  ASSUME WaitInv, NEW g \in Groups \cup {Nil}, NEW n \in Names, NEW v, Upsert(g, n, v)
  PROVE  WaitInv'
<1>1. \/ comp' = comp /\ pendingComps' = pendingComps
      \/ /\ g # Nil
         /\ comp' = [comp EXCEPT ![NextComp] = Pending(g, n, {n})]
         /\ pendingComps' = pendingComps \cup {NextComp}
      \/ /\ g # Nil
         /\ comp' = [comp EXCEPT ![NextComp] = Pending(g, Nil, {})]
         /\ pendingComps' = pendingComps \cup {NextComp}
  BY DEF Upsert, Waits, WaitsForCurrent
<1>2. MayAdd(g) /\ PushUndo(g, n)
  BY DEF Upsert
<1>3. PICK V : comp \in [CompIDs -> Completion(V)]
  BY DEF WaitInv, Shape, CompShape
<1> QED
  BY <1>1, <1>2, <1>3, UndoShape, AddedKeeps, ZenonT(60)

LEMMA DeleteKeeps ==
  ASSUME WaitInv, NEW g \in Groups \cup {Nil}, NEW n \in Names, Delete(g, n)
  PROVE  WaitInv'
<1> DEFINE old == Forget(n)
<1>1. \/ comp' = old /\ pendingComps' = Live
      \/ /\ g # Nil
         /\ comp' = [old EXCEPT ![NextComp] = Pending(g, Nil, {})]
         /\ pendingComps' = Live \cup {NextComp}
  BY DEF Delete, Waits, WaitsForCurrent
<1>2. MayAdd(g) /\ PushUndo(g, n) /\ Live \subseteq pendingComps
  BY DEF Delete, Live
<1>3. PICK V : comp \in [CompIDs -> Completion(V)]
  BY DEF WaitInv, Shape, CompShape
<1>4. /\ old \in [CompIDs -> Completion(V)]
      /\ \A c \in CompIDs : old[c].status = comp[c].status /\ old[c].group = comp[c].group
  BY <1>3, ZenonT(60) DEF Completion, Forget
<1> HIDE DEF old
<1> QED
  BY <1>1, <1>2, <1>4, UndoShape, AddedKeeps, ZenonT(60)

\* Completing what waits keeps the records, the groups and the other statuses.
LEMMA CompleteShape ==
  ASSUME NEW V, NEW old \in [CompIDs -> Completion(V)], NEW cs, NEW s \in Statuses
  PROVE  /\ CompleteAll(cs, old, s) \in [CompIDs -> Completion(V)]
         /\ \A c \in CompIDs :
               /\ CompleteAll(cs, old, s)[c].group = old[c].group
               /\ CompleteAll(cs, old, s)[c].status =
                     IF c \in cs /\ old[c].status = "wait" THEN s ELSE old[c].status
BY DEF CompleteAll, Completion

LEMMA CancelKeeps ==
  ASSUME WaitInv, CancelCompletions
  PROVE  WaitInv'
<1>1. PICK V : comp \in [CompIDs -> Completion(V)]
  BY DEF WaitInv, Shape, CompShape
<1>2. /\ comp' = CompleteAll(pendingComps, comp, "cancel")
      /\ pendingComps' = {} /\ group' = group
  BY DEF CancelCompletions
<1>3. /\ comp' \in [CompIDs -> Completion(V)]
      /\ \A c \in CompIDs :
            /\ comp'[c].group = comp[c].group
            /\ comp'[c].status = IF c \in pendingComps /\ comp[c].status = "wait"
                                 THEN "cancel" ELSE comp[c].status
  BY <1>1, <1>2, CompleteShape DEF Statuses
<1>4. Shape' /\ PendingOpen'
  BY <1>2, <1>3 DEF Shape, CompShape, GroupShape, PendingOpen, WaitInv
<1>5. FreeUnowned' /\ LateWaits'
  BY <1>2, <1>3 DEF FreeUnowned, LateWaits, WaitInv
<1>6. WaitSound'
  BY <1>2, <1>3 DEF WaitSound, OfGroup, Completed, WaitInv
<1> QED
  BY <1>4, <1>5, <1>6 DEF WaitInv

\* An answer of Envoy takes what it completes out of the mutator's map.
LEMMA HandleAckKeeps ==
  ASSUME WaitInv, NEW ack, NEW resp, NEW nack, NEW names,
         HandleAck(ack, resp, nack, names)
  PROVE  WaitInv'
<1> DEFINE reached == Reached(resp)
           empty   == Emptied(reached, names)
           done    == Finished(ack, nack, empty, reached)
           trimmed == [c \in CompIDs |-> IF c \in reached
                          THEN [comp[c] EXCEPT !.rest = @ \ names, !.node = c \notin empty]
                          ELSE comp[c]]
           s       == IF nack THEN "nack" ELSE "ok"
<1>1. PICK V : comp \in [CompIDs -> Completion(V)]
  BY DEF WaitInv, Shape, CompShape
<1>2. PICK U : group \in [Groups -> Group(U)]
  BY DEF WaitInv, Shape, GroupShape
<1>3. /\ comp' = CompleteAll(done, trimmed, s)
      /\ pendingComps' = Live \ done
      /\ group' = IF nack THEN CancelGroups({comp[c].group : c \in done}) ELSE group
  BY DEF HandleAck
<1>4. s \in Statuses /\ s \in {"nack", "ok"}
  BY DEF Statuses
<1> HIDE DEF reached, empty, done, s
<1>5. /\ trimmed \in [CompIDs -> Completion(V)]
      /\ \A c \in CompIDs : trimmed[c].status = comp[c].status /\ trimmed[c].group = comp[c].group
  BY <1>1, ZenonT(60) DEF Completion
<1> HIDE DEF trimmed
<1>6. /\ comp' \in [CompIDs -> Completion(V)]
      /\ \A c \in CompIDs :
            /\ comp'[c].group = comp[c].group
            /\ comp'[c].status = IF c \in done /\ comp[c].status = "wait"
                                 THEN s ELSE comp[c].status
  BY <1>3, <1>4, <1>5, CompleteShape
<1>7. /\ group' \in [Groups -> Group(U)]
      /\ \A g \in Groups : /\ group'[g].state = group[g].state
                           /\ group[g].ctx # "live" => group'[g].ctx # "live"
  <2> DEFINE gs == {comp[c].group : c \in done}
  <2> HIDE DEF gs
  <2>1. /\ CancelGroups(gs) \in [Groups -> Group(U)]
        /\ \A g \in Groups : /\ CancelGroups(gs)[g].state = group[g].state
                             /\ group[g].ctx # "live" => CancelGroups(gs)[g].ctx # "live"
    BY <1>2 DEF CancelGroups, Group
  <2> QED
    BY <1>2, <1>3, <2>1 DEF gs
<1>8. Live \subseteq pendingComps /\ pendingComps \subseteq CompIDs
  BY DEF Live, WaitInv, Shape
<1>9. Shape'
  BY <1>3, <1>6, <1>7, <1>8 DEF Shape, CompShape, GroupShape
<1>10. PendingOpen'
  BY <1>3, <1>6, <1>8 DEF PendingOpen, WaitInv
<1>11. FreeUnowned'
  BY <1>4, <1>6 DEF FreeUnowned, WaitInv
<1>12. LateWaits'
  BY <1>4, <1>6, <1>7 DEF LateWaits, WaitInv
<1>13. WaitSound'
  BY <1>3, <1>4, <1>6, <1>7, <1>8, ZenonT(60) DEF WaitSound, OfGroup, Completed, WaitInv
<1> QED
  BY <1>9, <1>10, <1>11, <1>12, <1>13 DEF WaitInv

\* Steps that leave the completions alone and move a group only forward.
LEMMA GroupMoves ==
  ASSUME WaitInv, NEW U, group' \in [Groups -> Group(U)], UNCHANGED comp,
         pendingComps' \subseteq pendingComps,
         \A g \in Groups :
            /\ group[g].ctx # "live" => group'[g].ctx # "live"
            /\ group[g].state # "open" => group'[g].state # "open"
            /\ group'[g].state \in {"revert", "returned"} =>
                  \/ group[g].state \in {"revert", "returned"}
                  \/ \A c \in OfGroup(g) : Completed(c) /\ c \notin pendingComps
  PROVE  WaitInv'
<1>1. Shape'
  BY DEF Shape, CompShape, GroupShape, WaitInv
<1>2. PendingOpen' /\ FreeUnowned'
  BY DEF PendingOpen, FreeUnowned, WaitInv
<1>3. LateWaits'
  BY DEF LateWaits, WaitInv
<1>4. WaitSound'
  BY DEF WaitSound, OfGroup, Completed, WaitInv
<1> QED
  BY <1>1, <1>2, <1>3, <1>4 DEF WaitInv

\* The steps of Wait and of the caller after it.  When it returns with its context
\* alive, no completion has the context's error, so the mutator has none of them.
LEMMA GroupKeeps ==
  ASSUME WaitInv, NEW g \in Groups, Wait(g) \/ Deadline(g) \/ WaitReturn(g) \/ Revert(g)
  PROVE  WaitInv'
<1>1. PICK U : group \in [Groups -> Group(U)]
  BY DEF WaitInv, Shape, GroupShape
<1>2. CASE Wait(g)
  <2>1. group' \in [Groups -> Group(U)]
    BY <1>1, <1>2 DEF Wait, Group
  <2> QED
    BY <1>1, <1>2, <2>1, GroupMoves DEF Wait, Group
<1>3. CASE Deadline(g)
  <2>1. group' \in [Groups -> Group(U)]
    BY <1>1, <1>3 DEF Deadline, Group
  <2> QED
    BY <1>1, <1>3, <2>1, GroupMoves DEF Deadline, Group
<1>4. CASE WaitReturn(g)
  <2>1. ASSUME NEW c \in OfGroup(g) PROVE Completed(c) /\ c \notin pendingComps
    <3>1. Completed(c) /\ (group[g].ctx # "live" => c \notin pendingComps)
      BY <1>4 DEF WaitReturn
    <3>2. c \in CompIDs /\ comp[c].group = g
      BY DEF OfGroup
    <3>3. c \in pendingComps => comp[c].status = "ctx"
      BY <3>1 DEF Completed, PendingOpen, WaitInv
    <3> QED
      BY <3>1, <3>2, <3>3 DEF LateWaits, WaitInv
  <2>2. PICK failed \in BOOLEAN :
          group' = [group EXCEPT ![g].ctx = "done",
                                 ![g].state = IF failed THEN "revert" ELSE "returned"]
    BY <1>4 DEF WaitReturn
  <2>3. group[g].state = "waiting" /\ UNCHANGED <<comp, pendingComps>>
    BY <1>4 DEF WaitReturn
  <2>4. group' \in [Groups -> Group(U)]
    BY <1>1, <2>2, ZenonT(60) DEF Group
  <2>5. \A h \in Groups :
          /\ group[h].ctx # "live" => group'[h].ctx # "live"
          /\ group[h].state # "open" => group'[h].state # "open"
          /\ h # g => group'[h] = group[h]
    BY <1>1, <2>2 DEF Group
  <2> QED
    BY <2>1, <2>3, <2>4, <2>5, GroupMoves
<1>5. CASE Revert(g)
  <2>1. CASE group[g].undo = <<>>
    <3>1. /\ group[g].state = "revert" /\ UNCHANGED <<comp, pendingComps>>
          /\ group' = [group EXCEPT ![g].state = "returned"]
      BY <1>5, <2>1 DEF Revert
    <3>2. group' \in [Groups -> Group(U)]
      BY <1>1, <3>1 DEF Group
    <3> QED
      BY <1>1, <3>1, <3>2, GroupMoves DEF Group
  <2>2. CASE group[g].undo # <<>>
    <3> DEFINE u == Tail(group[g].undo)
               U1 == U \cup {u}
    <3>1. /\ group[g].state = "revert" /\ UNCHANGED <<comp, pendingComps>>
          /\ group' = [group EXCEPT ![g] = [group[g] EXCEPT !.undo = u]]
      BY <1>5, <2>2 DEF Revert
    <3> HIDE DEF u
    <3>2. group' \in [Groups -> Group(U1)]
      BY <1>1, <3>1 DEF Group
    <3>3. \A h \in Groups : group'[h].state = group[h].state /\ group'[h].ctx = group[h].ctx
      BY <1>1, <3>1 DEF Group
    <3> HIDE DEF U1
    <3> QED
      BY <3>1, <3>2, <3>3, GroupMoves
  <2> QED
    BY <2>1, <2>2
<1> QED
  BY <1>2, <1>3, <1>4, <1>5

\* Wait completes what is left and takes it out of the map.
LEMMA CompleteKeeps ==
  ASSUME WaitInv, NEW g \in Groups, NEW c \in CompIDs, WaitComplete(g, c) \/ WaitCleanup(g, c)
  PROVE  WaitInv'
<1>1. CASE WaitComplete(g, c)
  <2>1. PICK V : comp \in [CompIDs -> Completion(V)]
    BY DEF WaitInv, Shape, CompShape
  <2>2. /\ group[g].state = "waiting" /\ group[g].ctx # "live" /\ comp[c].group = g
        /\ comp' = CompleteAll({c}, comp, "ctx") /\ UNCHANGED <<pendingComps, group>>
    BY <1>1 DEF WaitComplete, OfGroup
  <2>3. /\ comp' \in [CompIDs -> Completion(V)]
        /\ \A d \in CompIDs :
              /\ comp'[d].group = comp[d].group
              /\ comp'[d].status = IF d = c /\ comp[d].status = "wait"
                                   THEN "ctx" ELSE comp[d].status
    BY <2>1, <2>2, CompleteShape DEF Statuses
  <2>4. Shape'
    BY <2>2, <2>3 DEF Shape, CompShape, GroupShape, WaitInv
  <2>5. PendingOpen'
    BY <2>2, <2>3 DEF PendingOpen, WaitInv, Shape
  <2>6. FreeUnowned' /\ LateWaits'
    BY <2>2, <2>3 DEF FreeUnowned, LateWaits, WaitInv
  <2>7. WaitSound'
    BY <2>2, <2>3 DEF WaitSound, OfGroup, Completed, WaitInv
  <2> QED
    BY <2>4, <2>5, <2>6, <2>7 DEF WaitInv
<1>2. CASE WaitCleanup(g, c)
  <2>1. PICK U : group \in [Groups -> Group(U)]
    BY DEF WaitInv, Shape, GroupShape
  <2> QED
    BY <1>2, <2>1, GroupMoves DEF WaitCleanup
<1> QED
  BY <1>1, <1>2

\* Whatever leaves the mutator and the groups alone.
LEMMA IdleKeeps ==
  ASSUME WaitInv, UNCHANGED <<comp, pendingComps, group>>
  PROVE  WaitInv'
BY DEF WaitInv, Shape, CompShape, GroupShape, PendingOpen, FreeUnowned, LateWaits, WaitSound,
       OfGroup, Completed

\* A new agent, or one that has just started.
NewAgent ==
    /\ comp = [c \in CompIDs |-> NoComp] /\ pendingComps = {}
    /\ group = [g \in Groups |-> NewGroup]

LEMMA FreshAgent == NewAgent => WaitInv
<1> SUFFICES ASSUME NewAgent PROVE WaitInv
  OBVIOUS
<1> USE DEF NewAgent
<1>1. NoComp \in Completion({0}) /\ NewGroup \in Group({<<>>})
  BY DEF NoComp, NewGroup, Completion, Group, Statuses
<1>2. Shape
  BY <1>1 DEF Shape, CompShape, GroupShape
<1>3. PendingOpen /\ FreeUnowned /\ LateWaits
  BY DEF PendingOpen, FreeUnowned, LateWaits, NoComp
<1>4. WaitSound
  BY DEF WaitSound, NewGroup
<1> QED
  BY <1>2, <1>3, <1>4 DEF WaitInv

LEMMA WaitStep ==
  ASSUME WaitInv, [Next]_vars
  PROVE  WaitInv'
<1>1. CASE Mutate
  BY <1>1, UpsertKeeps, DeleteKeeps DEF Mutate
<1>2. CASE Cancel
  BY <1>2, CancelKeeps DEF Cancel
<1>3. CASE Timeout
  BY <1>3, GroupKeeps DEF Timeout
<1>4. CASE Restored \/ WaitForFirstAck
  BY <1>4, IdleKeeps DEF Restored, RestoreCompleted, WaitForFirstAck
<1>5. CASE Waiters
  BY <1>5, GroupKeeps, CompleteKeeps DEF Waiters, GroupStep
<1>6. CASE Server
  <2>1. CASE SotwRequest
    <3>1. \/ UNCHANGED mutVars
          \/ \E ack, resp, nack, names : HandleAck(ack, resp, nack, names)
      BY <2>1 DEF SotwRequest
    <3> QED
      BY <3>1, HandleAckKeeps, IdleKeeps DEF mutVars
  <2>2. CASE DeltaRequest
    <3>1. \/ UNCHANGED mutVars
          \/ \E ack, resp, nack, names : HandleAck(ack, resp, nack, names)
      BY <2>2 DEF DeltaRequest
    <3> QED
      BY <3>1, HandleAckKeeps, IdleKeeps DEF mutVars
  <2>3. CASE SotwTop \/ SotwGet \/ SotwSend \/ DeltaGet \/ DeltaSend \/ WatchRead
    <3>1. UNCHANGED mutVars
      BY <2>3 DEF SotwTop, SotwGet, SotwSend, DeltaGet, DeltaSend, WatchRead
    <3> QED
      BY <3>1, IdleKeeps DEF mutVars
  <2> QED
    BY <1>6, <2>1, <2>2, <2>3 DEF Server
<1>7. CASE Connect \/ Accept \/ Reject \/ Change
  <2>1. UNCHANGED mutVars
    BY <1>7 DEF Connect, SotwConnect, DeltaConnect, Accept, Reject, SotwReceive, DeltaReceive,
                Change, SotwChange, DeltaChange
  <2> QED
    BY <2>1, IdleKeeps DEF mutVars
<1>8. CASE Break
  <2>1. CASE Disconnect \/ ClientRestart
    BY <2>1, IdleKeeps DEF Disconnect, ClientRestart, mutVars
  <2>2. CASE AgentRestart
    <3>1. NewAgent'
      BY <2>2 DEF AgentRestart, NewAgent, CompIDs, NoComp, NewGroup
    <3> QED
      BY <3>1, FreshAgent, PTL
  <2> QED
    BY <1>8, <2>1, <2>2 DEF Break
<1>9. CASE UNCHANGED vars
  BY <1>9, IdleKeeps DEF vars, mutVars
<1> QED
  BY <1>1, <1>2, <1>3, <1>4, <1>5, <1>6, <1>7, <1>8, <1>9 DEF Next

\* Once Wait has returned - acknowledged, refused, cancelled or late - none of its
\* completions can call back and the mutator holds none of them.  (WaitGroup.Wait,
\* CleanupAfterWait, HandleResourceVersionAck, CancelCompletions)
THEOREM WaitSoundHolds == Spec => []WaitSound
<1>1. Init => WaitInv
  BY FreshAgent DEF Init, MutatorInit, NewAgent
<1>2. WaitInv /\ [Next]_vars => WaitInv'
  BY WaitStep
<1>3. WaitInv => WaitSound
  BY DEF WaitInv
<1> QED
  BY <1>1, <1>2, <1>3, PTL DEF Spec
=============================================================================
