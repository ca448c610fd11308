-------------------------- MODULE StandaloneProofs --------------------------
(***************************************************************************)
(* Proofs about the two components that stand by themselves.               *)
(*                                                                         *)
(* CheckQueue, for any number of workers and checks and any batch size: an *)
(* inductive invariant, and from it the type invariant and the four safety *)
(* properties.                                                             *)
(*                                                                         *)
(* MinerDiversity, for every share, any number of miners, any chain, and   *)
(* whatever an overflow of the product makes of it: diversity leaves at    *)
(* least GetActiveMinerCount miners, hence somebody, able to mine the next *)
(* block.                                                                  *)
(***************************************************************************)
EXTENDS CheckQueue, MinerDiversity, FiniteSetTheorems, OrderLemmas

(***************************************************************************)
(* The inductive invariant.                                                *)
(***************************************************************************)
Busy(at) == {t \in Threads : at[t] = "work"}
Asleep(at) == {t \in Threads : at[t] \in {"wait", "woken"}}

\* No check is in two places, and a thread has checks when it works.
Placement ==
    /\ \A t \in Threads : queue \cap taken[t] = {}
    /\ \A t, u \in Threads : t # u => taken[t] \cap taken[u] = {}
    /\ \A t \in Threads : (pc[t] = "work") <=> (taken[t] # {})
    /\ \A t \in Threads : left[t] \subseteq taken[t]

\* The counters.  A thread that was interrupted asleep stays in nIdle and in
\* nTotal, hence the inequality.
Counters ==
    /\ nTodo = Cardinality(queue \cup InHand)
    /\ nTotal = nIdle + Cardinality(Busy(pc))
    /\ Cardinality(Asleep(pc)) <= nIdle

\* Without a control there is nothing to do and nothing to report.
Quiet ==
    pc[Master] \in {"out", "gone"} =>
        queue = {} /\ fAllOk /\ \A t \in Threads : taken[t] = {}

\* With one, a failure is known to the queue or to a thread at work, and
\* until there is one every check was run or is still to be.
Verdict ==
    /\ queue \cup InHand \cup ran \subseteq added
    /\ pc[Master] \notin {"out", "gone"} =>
        /\ failed = {} <=> fAllOk /\ \A t \in Busy(pc) : fOk[t]
        /\ failed = {} => added \subseteq ran \cup queue \cup UNION {left[t] : t \in Threads}
    /\ VerdictIsConjunction

IInv == TypeOK /\ Placement /\ Counters /\ Quiet /\ Verdict

-----------------------------------------------------------------------------
(* What the first half of a critical section of Loop leaves to its second  *)
(* half: the invariant with thread t taken out of the counts.              *)

HeldBut(t) == UNION {taken[u] : u \in Threads \ {t}}
LeftBut(t) == UNION {left[u] : u \in Threads \ {t}}

Ready(t, todo, total, idle, ok, at) ==
    /\ todo \in Nat /\ total \in Nat /\ idle \in Nat /\ ok \in BOOLEAN
    /\ at \in [Threads -> Places]
    /\ \A u \in Threads : u # t =>
          /\ (at[u] = "work") <=> (pc[u] = "work")
          /\ {at[u], pc[u]} \cap {"out", "gone"} # {} => at[u] = pc[u]
    /\ todo = Cardinality(queue \cup HeldBut(t))
    /\ total = idle + Cardinality(Busy(at) \ {t}) + 1
    /\ Cardinality(Asleep(at) \ {t}) <= idle
    /\ t # Master /\ pc[Master] \in {"out", "gone"} => queue = {} /\ ok
    /\ t = Master \/ pc[Master] \notin {"out", "gone"} =>
        /\ failed = {} <=> ok /\ \A u \in Busy(at) \ {t} : fOk[u]
        /\ failed = {} => added \subseteq ran \cup queue \cup LeftBut(t)

-----------------------------------------------------------------------------
(* Finite sets.                                                            *)

LEMMA ThreadsFinite ==
    ASSUME NEW at
    PROVE  /\ IsFiniteSet(Threads) /\ IsFiniteSet(Busy(at)) /\ IsFiniteSet(Asleep(at))
           /\ Cardinality(Busy(at)) \in Nat /\ Cardinality(Asleep(at)) \in Nat
<1>1. IsFiniteSet(Threads)
  BY CheckQueueAssumption, FS_AddElement DEF Threads
<1>2. Busy(at) \in SUBSET Threads /\ Asleep(at) \in SUBSET Threads
  BY DEF Busy, Asleep
<1>3. IsFiniteSet(Busy(at)) /\ IsFiniteSet(Asleep(at))
  BY <1>1, <1>2, FS_Subset
<1>4. QED BY <1>1, <1>3, FS_CardinalityType

\* Taking one thread out of a finite set of threads, and putting it back.
LEMMA OneThread ==
    ASSUME NEW S, IsFiniteSet(S), NEW t
    PROVE  /\ IsFiniteSet(S \ {t})
           /\ Cardinality(S) \in Nat /\ Cardinality(S \ {t}) \in Nat
           /\ t \in S => Cardinality(S) = Cardinality(S \ {t}) + 1
           /\ t \notin S => S \ {t} = S
           /\ Cardinality((S \ {t}) \cup {t}) = Cardinality(S \ {t}) + 1
<1>1. IsFiniteSet(S \ {t}) BY FS_RemoveElement
<1>2. /\ Cardinality(S) \in Nat /\ Cardinality(S \ {t}) \in Nat
  BY <1>1, FS_CardinalityType
<1>3. t \in S => Cardinality(S) = Cardinality(S \ {t}) + 1
  BY <1>2, FS_RemoveElement
<1>4. Cardinality((S \ {t}) \cup {t}) = Cardinality(S \ {t}) + 1
  <2>1. t \notin S \ {t} OBVIOUS
  <2>2. QED BY <1>1, <2>1, FS_AddElement
<1>5. QED BY <1>1, <1>2, <1>3, <1>4

LEMMA ChecksFinite ==
    ASSUME NEW S \in SUBSET Checks
    PROVE  IsFiniteSet(S) /\ Cardinality(S) \in Nat
BY CheckQueueAssumption, FS_Subset, FS_CardinalityType

LEMMA DisjointUnion ==
    ASSUME NEW S, IsFiniteSet(S), NEW T, IsFiniteSet(T), S \cap T = {}
    PROVE  Cardinality(S \cup T) = Cardinality(S) + Cardinality(T)
<1>1. Cardinality(S \cap T) = 0 BY FS_EmptySet
<1>2. Cardinality(S) \in Nat /\ Cardinality(T) \in Nat BY FS_CardinalityType
<1>3. Cardinality(S \cup T) = Cardinality(S) + Cardinality(T) - Cardinality(S \cap T)
  BY FS_Union
<1>4. QED BY <1>1, <1>2, <1>3

\* A batch is never empty.
LEMMA BatchPositive ==
    ASSUME NEW total, NEW idle
    PROVE  Batch(total, idle) # 0
BY DEF Batch

-----------------------------------------------------------------------------
(* The second half of the critical section.                                *)

LEMMA TakeStep ==
    ASSUME IInv, NEW t \in Threads, NEW todo, NEW total, NEW idle, NEW ok, NEW at,
           Ready(t, todo, total, idle, ok, at),
           Take(t, todo, total, idle, ok, at), UNCHANGED <<unwinding, history>>
    PROVE  IInv'
<1>1. PICK V \in SUBSET queue :
          /\ Cardinality(V) = Batch(total, idle)
          /\ queue' = queue \ V
          /\ taken' = [taken EXCEPT ![t] = V]
          /\ left' = [left EXCEPT ![t] = V]
  BY DEF Take
<1>2. /\ queue # {} /\ fOk' = [fOk EXCEPT ![t] = ok] /\ pc' = [at EXCEPT ![t] = "work"]
      /\ nTodo' = todo /\ nTotal' = total /\ nIdle' = idle /\ fAllOk' = ok
      /\ UNCHANGED <<ret, unwinding, added, ran, failed>>
  BY DEF Take, history
<1>3. V # {} BY <1>1, BatchPositive, FS_EmptySet
<1> USE DEF IInv
<1>4. TypeOK'
  BY <1>1, <1>2 DEF TypeOK, Ready, Places
<1>5. /\ queue \in SUBSET Checks
      /\ pc' \in [Threads -> Places] /\ at \in [Threads -> Places]
      /\ taken \in [Threads -> SUBSET Checks] /\ left \in [Threads -> SUBSET Checks]
      /\ fOk \in [Threads -> BOOLEAN]
  BY <1>4 DEF TypeOK, Ready
<1>6. \A u \in Threads : u # t =>
          /\ taken'[u] = taken[u] /\ left'[u] = left[u] /\ fOk'[u] = fOk[u]
          /\ pc'[u] = at[u]
  BY <1>1, <1>2, <1>5
<1>7. taken'[t] = V /\ left'[t] = V /\ fOk'[t] = ok /\ pc'[t] = "work"
  BY <1>1, <1>2, <1>5
<1>8. Placement'
  <2>1. \A u \in Threads : (queue \cap taken[u] = {})'
    BY <1>1, <1>6, <1>7 DEF Placement
  <2>2. \A u, v \in Threads : u # v => (taken[u] \cap taken[v] = {})'
    BY <1>1, <1>6, <1>7 DEF Placement
  <2>3. \A u \in Threads : ((pc[u] = "work") <=> (taken[u] # {}))'
    BY <1>3, <1>6, <1>7 DEF Placement, Ready
  <2>4. \A u \in Threads : (left[u] \subseteq taken[u])'
    BY <1>6, <1>7 DEF Placement
  <2>5. QED BY <2>1, <2>2, <2>3, <2>4 DEF Placement
<1>9. Counters'
  <2>1. (queue \cup InHand)' = queue \cup HeldBut(t)
    BY <1>1, <1>6, <1>7 DEF InHand, HeldBut
  <2>2. Busy(pc') = (Busy(at) \ {t}) \cup {t}
    BY <1>6, <1>7 DEF Busy
  <2>3. Asleep(pc') = Asleep(at) \ {t}
    BY <1>6, <1>7 DEF Asleep
  <2>4. IsFiniteSet(Busy(at)) BY ThreadsFinite
  <2>5. /\ Cardinality((Busy(at) \ {t}) \cup {t}) = Cardinality(Busy(at) \ {t}) + 1
        /\ Cardinality(Busy(at) \ {t}) \in Nat
    BY <2>4, OneThread
  <2>6. nTodo' = Cardinality((queue \cup InHand)')
    BY <1>2, <2>1 DEF Ready
  <2>7. nTotal' = nIdle' + Cardinality(Busy(pc'))
    <3>1. total = idle + Cardinality(Busy(at) \ {t}) + 1 /\ idle \in Nat BY DEF Ready
    <3>2. Cardinality(Busy(pc')) = Cardinality(Busy(at) \ {t}) + 1 BY <2>2, <2>5
    <3>3. QED BY <1>2, <2>5, <3>1, <3>2
  <2>8. Cardinality(Asleep(pc')) <= nIdle'
    BY <1>2, <2>3 DEF Ready
  <2>9. QED BY <2>6, <2>7, <2>8 DEF Counters
<1>10. Quiet'
  BY <1>2, <1>6, <1>7 DEF Quiet, Ready, Threads
<1>11. Verdict'
  <2>1. (queue \cup InHand)' = queue \cup HeldBut(t) /\ HeldBut(t) \subseteq InHand
    BY <1>1, <1>6, <1>7 DEF InHand, HeldBut
  <2>2. (queue \cup InHand \cup ran \subseteq added)'
    BY <1>2, <2>1 DEF Verdict
  <2>3. (queue \cup UNION {left[u] : u \in Threads})' = queue \cup LeftBut(t)
    BY <1>1, <1>6, <1>7 DEF LeftBut
  <2>4. t = Master \/ pc[Master] \notin {"out", "gone"}
    BY <1>2 DEF Ready
  <2>5. (failed = {} <=> fAllOk /\ \A u \in Busy(pc) : fOk[u])'
    BY <1>2, <1>6, <1>7, <2>4 DEF Ready, Busy
  <2>6. (failed = {} => added \subseteq ran \cup queue \cup UNION {left[u] : u \in Threads})'
    BY <1>2, <2>3, <2>4 DEF Ready
  <2>7. VerdictIsConjunction'
    BY <1>6, <1>7, <2>4 DEF VerdictIsConjunction, Ready, Threads
  <2>8. QED BY <2>2, <2>5, <2>6, <2>7 DEF Verdict
<1>12. QED BY <1>4, <1>8, <1>9, <1>10, <1>11

\* Leave and Sleep alike: the thread holds no check afterwards, and the
\* control, if it lives on, is as Ready describes it.
LEMMA RestStep ==
    ASSUME IInv, NEW t \in Threads, NEW todo, NEW total, NEW idle, NEW ok, NEW at,
           Ready(t, todo, total, idle, ok, at),
           Leave(t, todo, total, idle, ok, at) \/ Sleep(t, todo, total, idle, ok, at),
           UNCHANGED <<unwinding, history>>,
           left[t] = {}
    PROVE  IInv'
<1> DEFINE place == pc'[t]
<1>1. /\ queue = {} /\ queue' = {}
      /\ taken' = [taken EXCEPT ![t] = {}] /\ left' = left /\ fOk' = fOk
      /\ pc' = [at EXCEPT ![t] = place] /\ place \in {"out", "gone", "wait"}
      /\ nTodo' = todo
      /\ UNCHANGED <<unwinding, added, ran, failed>>
  BY DEF Leave, Sleep, history, Ready
<1>2. \/ /\ place = "wait" /\ nIdle' = idle + 1 /\ nTotal' = total
         /\ fAllOk' = ok /\ ret' = ret
      \/ /\ place \in {"out", "gone"} /\ t = Master /\ todo = 0
         /\ nIdle' = idle /\ nTotal' = total - 1 /\ fAllOk' = TRUE /\ ret' = ok
  BY DEF Leave, Sleep, Ready
<1> HIDE DEF place
<1> USE DEF IInv
<1>3. /\ todo \in Nat /\ total \in Nat /\ idle \in Nat /\ ok \in BOOLEAN
      /\ at \in [Threads -> Places]
      /\ total = idle + Cardinality(Busy(at) \ {t}) + 1
  BY DEF Ready
<1>4. Cardinality(Busy(at) \ {t}) \in Nat
  <2>1. IsFiniteSet(Busy(at)) BY ThreadsFinite
  <2>2. QED BY <2>1, OneThread
<1>5. TypeOK'
  <2>1. pc' \in [Threads -> Places] BY <1>1, <1>3 DEF Places
  <2>2. taken' \in [Threads -> SUBSET Checks] BY <1>1 DEF TypeOK
  <2>3. nTodo' \in Nat /\ nIdle' \in Nat /\ nTotal' \in Nat
    BY <1>1, <1>2, <1>3, <1>4
  <2>4. fAllOk' \in BOOLEAN /\ ret' \in BOOLEAN BY <1>2, <1>3 DEF TypeOK
  <2>5. QED BY <1>1, <2>1, <2>2, <2>3, <2>4 DEF TypeOK
<1>6. taken \in [Threads -> SUBSET Checks] BY DEF TypeOK
<1>7. \A u \in Threads : u # t => taken'[u] = taken[u] /\ pc'[u] = at[u]
  BY <1>1, <1>3, <1>6
<1>8. taken'[t] = {} /\ pc'[t] = place
  BY <1>1, <1>3, <1>6
<1>9. (queue \cup InHand)' = HeldBut(t)
  BY <1>1, <1>7, <1>8 DEF InHand, HeldBut
<1>10. todo = Cardinality(HeldBut(t))
  BY <1>1 DEF Ready
<1>11. place \in {"out", "gone"} => HeldBut(t) = {}
  <2>1. HeldBut(t) \in SUBSET Checks BY <1>6 DEF HeldBut
  <2>2. IsFiniteSet(HeldBut(t)) BY <2>1, ChecksFinite
  <2>3. QED BY <1>2, <1>10, <2>2, FS_EmptySet
<1>12. Placement'
  <2>1. \A u \in Threads : (queue \cap taken[u] = {})' BY <1>1
  <2>2. \A u, v \in Threads : u # v => (taken[u] \cap taken[v] = {})'
    BY <1>7, <1>8 DEF Placement
  <2>3. \A u \in Threads : ((pc[u] = "work") <=> (taken[u] # {}))'
    BY <1>1, <1>7, <1>8 DEF Placement, Ready
  <2>4. \A u \in Threads : (left[u] \subseteq taken[u])'
    BY <1>1, <1>7, <1>8 DEF Placement
  <2>5. QED BY <2>1, <2>2, <2>3, <2>4 DEF Placement
<1>13. Busy(pc') = Busy(at) \ {t}
  BY <1>1, <1>7, <1>8 DEF Busy
<1>14. Counters'
  <2>1. nTodo' = Cardinality((queue \cup InHand)') BY <1>1, <1>9, <1>10
  <2>2. nTotal' = nIdle' + Cardinality(Busy(pc'))
    BY <1>2, <1>3, <1>4, <1>13
  <2>3. Cardinality(Asleep(at) \ {t}) <= idle BY DEF Ready
  <2>4. IsFiniteSet(Asleep(at)) BY ThreadsFinite
  <2>5. /\ Cardinality((Asleep(at) \ {t}) \cup {t}) = Cardinality(Asleep(at) \ {t}) + 1
        /\ Cardinality(Asleep(at) \ {t}) \in Nat
    BY <2>4, OneThread
  <2>6. Asleep(pc') = IF place = "wait" THEN (Asleep(at) \ {t}) \cup {t}
                                        ELSE Asleep(at) \ {t}
    BY <1>1, <1>7, <1>8 DEF Asleep
  <2>7. Cardinality(Asleep(pc')) <= nIdle'
    BY <1>2, <1>3, <2>3, <2>5, <2>6
  <2>8. QED BY <2>1, <2>2, <2>7 DEF Counters
<1>15. Quiet'
  <2>1. ASSUME pc'[Master] \in {"out", "gone"}
        PROVE  queue' = {} /\ fAllOk' /\ \A u \in Threads : taken'[u] = {}
    <3>1. CASE t = Master
      <4>1. place \in {"out", "gone"} BY <2>1, <3>1, <1>8
      <4>2. \A u \in Threads : taken'[u] = {}
        BY <4>1, <1>7, <1>8, <1>11 DEF HeldBut
      <4>3. QED BY <4>1, <4>2, <1>1, <1>2
    <3>2. CASE t # Master
      <4>1. pc[Master] \in {"out", "gone"} BY <2>1, <3>2, <1>7 DEF Ready, Threads
      <4>2. ok /\ \A u \in Threads : taken[u] = {} BY <4>1, <3>2 DEF Ready, Quiet
      <4>3. QED BY <4>2, <3>2, <1>1, <1>2, <1>7, <1>8
    <3>3. QED BY <3>1, <3>2
  <2>2. QED BY <2>1 DEF Quiet
<1>16. Verdict'
  <2>1. HeldBut(t) \subseteq InHand BY DEF HeldBut, InHand
  <2>2. (queue \cup InHand \cup ran \subseteq added)'
    BY <1>1, <1>9, <2>1 DEF Verdict
  <2>3. UNION {left'[u] : u \in Threads} = LeftBut(t)
    BY <1>1 DEF LeftBut
  <2>4. (t = Master \/ pc[Master] \notin {"out", "gone"}) =>
          /\ failed = {} <=> ok /\ \A u \in Busy(at) \ {t} : fOk[u]
          /\ failed = {} => added \subseteq ran \cup LeftBut(t)
    BY <1>1 DEF Ready
  <2>5. ASSUME pc'[Master] \notin {"out", "gone"}
        PROVE  t = Master \/ pc[Master] \notin {"out", "gone"}
    BY <2>5, <1>7 DEF Ready, Threads
  <2>6. ASSUME pc'[Master] \notin {"out", "gone"}
        PROVE  /\ (failed = {} <=> fAllOk /\ \A u \in Busy(pc) : fOk[u])'
               /\ (failed = {} => added \subseteq
                        ran \cup queue \cup UNION {left[u] : u \in Threads})'
    <3>1. fAllOk' = ok BY <2>6, <1>2, <1>8
    <3>2. QED BY <2>3, <2>4, <2>5, <2>6, <3>1, <1>1, <1>13
  <2>7. VerdictIsConjunction'
    <3>1. CASE pc'[Master] = "out" /\ t = Master
      <4>1. place = "out" BY <3>1, <1>8
      <4>2. \A u \in Threads : u # t => taken[u] = {} /\ left[u] = {}
        BY <4>1, <1>11 DEF HeldBut, Placement
      <4>3. Busy(at) \ {t} = {} BY <4>2 DEF Ready, Placement, Busy
      <4>4. LeftBut(t) = {} BY <4>2 DEF LeftBut
      <4>5. ret' = ok BY <4>1, <1>2
      <4>6. ran \subseteq added BY DEF Verdict
      <4>7. failed = {} <=> ok BY <3>1, <2>4, <4>3
      <4>8. failed = {} => added \subseteq ran BY <3>1, <2>4, <4>4
      <4>9. QED BY <4>5, <4>6, <4>7, <4>8, <1>1 DEF VerdictIsConjunction
    <3>2. CASE pc'[Master] = "out" /\ t # Master
      <4>1. pc[Master] = "out" BY <3>2, <1>7 DEF Ready, Threads
      <4>2. ret' = ret BY <3>2, <1>2
      <4>3. QED BY <4>1, <4>2, <1>1 DEF Verdict, VerdictIsConjunction
    <3>3. QED BY <3>1, <3>2 DEF VerdictIsConjunction
  <2>8. QED BY <2>2, <2>6, <2>7 DEF Verdict
<1>17. QED BY <1>5, <1>12, <1>14, <1>15, <1>16

\* The second half as a whole.
LEMMA SecondHalf ==
    ASSUME IInv, NEW t \in Threads, NEW todo, NEW total, NEW idle, NEW ok, NEW at,
           Ready(t, todo, total, idle, ok, at), left[t] = {},
           TakeLeaveOrSleep(t, todo, total, idle, ok, at),
           UNCHANGED <<unwinding, history>>
    PROVE  IInv'
BY TakeStep, RestStep DEF TakeLeaveOrSleep

-----------------------------------------------------------------------------
(* The first halves.                                                       *)

LEMMA EnterStep ==
    ASSUME IInv, NEW t \in Threads, Enter(t)
    PROVE  IInv'
<1> USE DEF IInv
<1>1. /\ pc[t] \in {"out", "adding"}
      /\ t = Master => pc[t] = "adding"
      /\ TakeLeaveOrSleep(t, nTodo, nTotal + 1, nIdle, fAllOk, pc)
      /\ UNCHANGED <<unwinding, history>>
  BY DEF Enter
<1>2. taken[t] = {} /\ left[t] = {}
  BY <1>1 DEF Placement
<1>3. Ready(t, nTodo, nTotal + 1, nIdle, fAllOk, pc)
  <2>1. Busy(pc) \ {t} = Busy(pc) /\ Asleep(pc) \ {t} = Asleep(pc)
    BY <1>1 DEF Busy, Asleep
  <2>2. InHand = HeldBut(t)
    BY <1>2 DEF InHand, HeldBut
  <2>3. UNION {left[u] : u \in Threads} = LeftBut(t)
    BY <1>2 DEF LeftBut
  <2>4. /\ nTodo \in Nat /\ nTotal + 1 \in Nat /\ nIdle \in Nat /\ fAllOk \in BOOLEAN
        /\ pc \in [Threads -> Places]
    BY DEF TypeOK
  <2>5. nTodo = Cardinality(queue \cup HeldBut(t)) BY <2>2 DEF Counters
  <2>6. nTotal + 1 = nIdle + Cardinality(Busy(pc) \ {t}) + 1
    <3>1. nTotal = nIdle + Cardinality(Busy(pc)) BY DEF Counters
    <3>2. Cardinality(Busy(pc)) \in Nat BY ThreadsFinite
    <3>3. QED BY <2>1, <2>4, <3>1, <3>2
  <2>7. Cardinality(Asleep(pc) \ {t}) <= nIdle BY <2>1 DEF Counters
  <2>8. t # Master /\ pc[Master] \in {"out", "gone"} => queue = {} /\ fAllOk
    BY DEF Quiet
  <2>9. t = Master \/ pc[Master] \notin {"out", "gone"} =>
          /\ failed = {} <=> fAllOk /\ \A u \in Busy(pc) \ {t} : fOk[u]
          /\ failed = {} => added \subseteq ran \cup queue \cup LeftBut(t)
    BY <1>1, <2>1, <2>3 DEF Verdict
  <2>10. QED BY <2>4, <2>5, <2>6, <2>7, <2>8, <2>9 DEF Ready
<1>4. QED BY <1>1, <1>2, <1>3, SecondHalf

LEMMA ResumeStep ==
    ASSUME IInv, NEW t \in Threads, Resume(t)
    PROVE  IInv'
<1> USE DEF IInv
<1>1. /\ pc[t] = "woken"
      /\ TakeLeaveOrSleep(t, nTodo, nTotal, nIdle - 1, fAllOk, pc)
      /\ UNCHANGED <<unwinding, history>>
  BY DEF Resume
<1>2. taken[t] = {} /\ left[t] = {}
  BY <1>1 DEF Placement
<1>3. Ready(t, nTodo, nTotal, nIdle - 1, fAllOk, pc)
  <2>1. Busy(pc) \ {t} = Busy(pc) BY <1>1 DEF Busy
  <2>2. InHand = HeldBut(t) BY <1>2 DEF InHand, HeldBut
  <2>3. UNION {left[u] : u \in Threads} = LeftBut(t) BY <1>2 DEF LeftBut
  <2>4. /\ nTodo \in Nat /\ nTotal \in Nat /\ nIdle \in Nat /\ fAllOk \in BOOLEAN
        /\ pc \in [Threads -> Places]
    BY DEF TypeOK
  <2>5. nTodo = Cardinality(queue \cup HeldBut(t)) BY <2>2 DEF Counters
  <2>6. Cardinality(Asleep(pc)) = Cardinality(Asleep(pc) \ {t}) + 1
        /\ Cardinality(Asleep(pc) \ {t}) \in Nat
    <3>1. t \in Asleep(pc) BY <1>1 DEF Asleep
    <3>2. IsFiniteSet(Asleep(pc)) BY ThreadsFinite
    <3>3. QED BY <3>1, <3>2, OneThread
  <2>7. Cardinality(Asleep(pc)) <= nIdle BY DEF Counters
  <2>8. nIdle - 1 \in Nat /\ Cardinality(Asleep(pc) \ {t}) <= nIdle - 1
    BY <2>4, <2>6, <2>7
  <2>9. nTotal = (nIdle - 1) + Cardinality(Busy(pc) \ {t}) + 1
    <3>1. nTotal = nIdle + Cardinality(Busy(pc)) BY DEF Counters
    <3>2. Cardinality(Busy(pc)) \in Nat BY ThreadsFinite
    <3>3. QED BY <2>1, <2>4, <3>1, <3>2
  <2>10. t # Master /\ pc[Master] \in {"out", "gone"} => queue = {} /\ fAllOk
    BY DEF Quiet
  <2>11. t = Master \/ pc[Master] \notin {"out", "gone"} =>
          /\ failed = {} <=> fAllOk /\ \A u \in Busy(pc) \ {t} : fOk[u]
          /\ failed = {} => added \subseteq ran \cup queue \cup LeftBut(t)
    BY <1>1, <2>1, <2>3 DEF Verdict
  <2>12. QED BY <2>4, <2>5, <2>8, <2>9, <2>10, <2>11 DEF Ready
<1>4. QED BY <1>1, <1>2, <1>3, SecondHalf

LEMMA CleanUpStep ==
    ASSUME IInv, NEW t \in Threads, CleanUp(t)
    PROVE  IInv'
<1> USE DEF IInv
<1> DEFINE todo == nTodo - Cardinality(taken[t])
           wake == todo = 0 /\ t # Master /\ pc[Master] = "wait"
           at   == IF wake THEN [pc EXCEPT ![Master] = "woken"] ELSE pc
           ok   == fAllOk /\ fOk[t]
<1>1. /\ pc[t] = "work" /\ left[t] = {}
      /\ TakeLeaveOrSleep(t, todo, nTotal, nIdle, ok, at)
      /\ UNCHANGED <<unwinding, history>>
  BY DEF CleanUp
<1>2. /\ nTodo \in Nat /\ nTotal \in Nat /\ nIdle \in Nat /\ fAllOk \in BOOLEAN
      /\ pc \in [Threads -> Places] /\ fOk \in [Threads -> BOOLEAN]
      /\ queue \in SUBSET Checks /\ taken \in [Threads -> SUBSET Checks]
  BY DEF TypeOK
<1>3. at \in [Threads -> Places] /\ ok \in BOOLEAN
  BY <1>2 DEF Places
<1>4. \A u \in Threads :
          at[u] = pc[u] \/ (u # t /\ at[u] = "woken" /\ pc[u] = "wait")
  BY <1>2 DEF Threads
<1>5. Busy(at) = Busy(pc) /\ Asleep(at) = Asleep(pc)
  BY <1>4 DEF Busy, Asleep
<1>6. todo \in Nat /\ todo = Cardinality(queue \cup HeldBut(t))
  <2>1. queue \cup InHand = (queue \cup HeldBut(t)) \cup taken[t]
    BY DEF InHand, HeldBut
  <2>2. (queue \cup HeldBut(t)) \cap taken[t] = {}
    BY DEF Placement, HeldBut
  <2>3. queue \cup HeldBut(t) \in SUBSET Checks /\ taken[t] \in SUBSET Checks
    BY <1>2 DEF HeldBut
  <2>4. /\ IsFiniteSet(queue \cup HeldBut(t)) /\ IsFiniteSet(taken[t])
        /\ Cardinality(queue \cup HeldBut(t)) \in Nat /\ Cardinality(taken[t]) \in Nat
    BY <2>3, ChecksFinite
  <2>5. Cardinality(queue \cup InHand)
            = Cardinality(queue \cup HeldBut(t)) + Cardinality(taken[t])
    BY <2>1, <2>2, <2>4, DisjointUnion
  <2>6. nTodo = Cardinality(queue \cup InHand) BY DEF Counters
  <2>7. QED BY <2>4, <2>5, <2>6
<1>7. pc[Master] \notin {"out", "gone"}
  BY <1>1 DEF Placement, Quiet
<1> HIDE DEF todo, at, ok
<1>8. Ready(t, todo, nTotal, nIdle, ok, at)
  <2>1. \A u \in Threads : u # t =>
          /\ (at[u] = "work") <=> (pc[u] = "work")
          /\ {at[u], pc[u]} \cap {"out", "gone"} # {} => at[u] = pc[u]
    BY <1>4
  <2>2. t \in Busy(at) BY <1>1, <1>5 DEF Busy
  <2>3. nTotal = nIdle + Cardinality(Busy(at) \ {t}) + 1
    <3>1. IsFiniteSet(Busy(at)) BY ThreadsFinite
    <3>2. /\ Cardinality(Busy(at)) = Cardinality(Busy(at) \ {t}) + 1
          /\ Cardinality(Busy(at) \ {t}) \in Nat
      BY <2>2, <3>1, OneThread
    <3>3. nTotal = nIdle + Cardinality(Busy(at)) BY <1>5 DEF Counters
    <3>4. QED BY <1>2, <3>2, <3>3
  <2>4. Cardinality(Asleep(at) \ {t}) <= nIdle
    <3>1. Asleep(at) \ {t} = Asleep(at) BY <1>1, <1>5 DEF Asleep
    <3>2. QED BY <1>5, <3>1 DEF Counters
  <2>5. failed = {} <=> ok /\ \A u \in Busy(at) \ {t} : fOk[u]
    BY <1>1, <1>5, <1>7, <2>2 DEF Verdict, ok
  <2>6. failed = {} => added \subseteq ran \cup queue \cup LeftBut(t)
    <3>1. UNION {left[u] : u \in Threads} = LeftBut(t) BY <1>1 DEF LeftBut
    <3>2. QED BY <1>7, <3>1 DEF Verdict
  <2>7. QED BY <1>2, <1>3, <1>6, <1>7, <2>1, <2>3, <2>4, <2>5, <2>6 DEF Ready
<1>9. QED BY <1>1, <1>8, SecondHalf

-----------------------------------------------------------------------------
(* The other actions.                                                      *)

LEMMA RunCheckStep ==
    ASSUME IInv, NEW t \in Threads, RunCheck(t)
    PROVE  IInv'
<1> USE DEF IInv
<1>1. PICK c \in left[t] :
        /\ pc[t] = "work" /\ left' = [left EXCEPT ![t] = left[t] \ {c}]
        /\ \/ /\ fOk[t] /\ ran' = ran \cup {c}
              /\ \/ fOk' = [fOk EXCEPT ![t] = TRUE] /\ failed' = failed
                 \/ fOk' = [fOk EXCEPT ![t] = FALSE] /\ failed' = failed \cup {c}
           \/ ~fOk[t] /\ UNCHANGED <<fOk, ran, failed>>
        /\ UNCHANGED <<queue, nIdle, nTotal, nTodo, fAllOk, pc, taken, unwinding, ret, added>>
  BY DEF RunCheck, counters
<1>2. /\ left \in [Threads -> SUBSET Checks] /\ fOk \in [Threads -> BOOLEAN]
      /\ c \in Checks /\ c \in taken[t]
  BY DEF TypeOK, Placement
<1>3. TypeOK' BY <1>1, <1>2 DEF TypeOK
<1>4. \A u \in Threads : left'[u] \subseteq left[u] /\ left[u] \subseteq left'[u] \cup {c}
  BY <1>1, <1>2
<1>5. Placement' BY <1>1, <1>4 DEF Placement
<1>6. Counters' BY <1>1 DEF Counters, InHand, Busy, Asleep
<1>7. Quiet' BY <1>1 DEF Quiet
<1>8. pc[Master] \notin {"out", "gone"} BY <1>2 DEF Quiet
<1>9. c \in added BY <1>2 DEF Verdict, InHand
<1>10. Verdict'
  <2>1. (queue \cup InHand \cup ran \subseteq added)' BY <1>1, <1>9 DEF Verdict, InHand
  <2>2. t \in Busy(pc) /\ Busy(pc') = Busy(pc) BY <1>1 DEF Busy
  <2>3. failed = {} <=> fAllOk /\ \A u \in Busy(pc) : fOk[u] BY <1>8 DEF Verdict
  <2>4. failed = {} => added \subseteq ran \cup queue \cup UNION {left[u] : u \in Threads}
    BY <1>8 DEF Verdict
  <2>5. (failed = {} <=> fAllOk /\ \A u \in Busy(pc) : fOk[u])'
    <3>1. \A u \in Threads : u # t => fOk'[u] = fOk[u] BY <1>1, <1>2
    <3>2. Busy(pc) \in SUBSET Threads BY DEF Busy
    <3>3. CASE fOk' = [fOk EXCEPT ![t] = FALSE] /\ failed' = failed \cup {c}
      <4>1. ~fOk'[t] BY <3>3, <1>2
      <4>2. QED BY <3>3, <4>1, <2>2
    <3>4. CASE fOk[t] /\ fOk' = [fOk EXCEPT ![t] = TRUE] /\ failed' = failed
      <4>1. fOk'[t] = TRUE BY <3>4, <1>2
      <4>2. \A u \in Threads : fOk'[u] <=> fOk[u] BY <3>1, <3>4, <4>1
      <4>3. QED BY <3>2, <3>4, <4>2, <2>2, <2>3, <1>1
    <3>5. CASE UNCHANGED <<fOk, ran, failed>>
      BY <3>5, <2>2, <2>3, <1>1
    <3>6. QED BY <3>3, <3>4, <3>5, <1>1
  <2>6. (failed = {} => added \subseteq ran \cup queue \cup UNION {left[u] : u \in Threads})'
    <3>1. SUFFICES ASSUME failed' = {}
                   PROVE  (added \subseteq ran \cup queue \cup UNION {left[u] : u \in Threads})'
      OBVIOUS
    <3>2. failed = {} /\ fOk[t] BY <3>1, <1>1, <2>2, <2>3
    <3>3. c \in ran' /\ ran \subseteq ran' BY <3>2, <1>1
    <3>4. QED BY <3>2, <3>3, <2>4, <1>1, <1>4
  <2>7. VerdictIsConjunction' BY <1>1, <1>8 DEF VerdictIsConjunction
  <2>8. QED BY <2>1, <2>5, <2>6, <2>7 DEF Verdict
<1>11. QED BY <1>3, <1>5, <1>6, <1>7, <1>10

\* Steps that only move threads about between "adding", "wait", "woken" and
\* "gone", the master not from or to a place without a control.
LEMMA MoveStep ==
    ASSUME IInv,
           pc' \in [Threads -> Places],
           Busy(pc') = Busy(pc), Asleep(pc') \subseteq Asleep(pc),
           pc'[Master] \in {"out", "gone"} <=> pc[Master] \in {"out", "gone"},
           pc'[Master] = "out" => pc[Master] = "out",
           unwinding' \in BOOLEAN,
           UNCHANGED <<queue, counters, taken, left, fOk, ret, history>>
    PROVE  IInv'
<1> USE DEF IInv
<1>1. UNCHANGED <<queue, nIdle, nTotal, nTodo, fAllOk, taken, left, fOk, ret, added, ran, failed>>
  BY DEF counters, history
<1>2. TypeOK' BY <1>1 DEF TypeOK
<1>3. Placement' BY <1>1 DEF Placement, Busy
<1>4. Counters'
  <2>1. IsFiniteSet(Asleep(pc)) BY ThreadsFinite
  <2>2. /\ Cardinality(Asleep(pc')) <= Cardinality(Asleep(pc))
        /\ Cardinality(Asleep(pc)) \in Nat /\ Cardinality(Asleep(pc')) \in Nat
    BY <2>1, FS_Subset, ThreadsFinite
  <2>3. Cardinality(Asleep(pc)) <= nIdle /\ nIdle \in Nat BY DEF Counters, TypeOK
  <2>4. Cardinality(Asleep(pc')) <= nIdle' BY <1>1, <2>2, <2>3
  <2>5. QED BY <1>1, <2>4 DEF Counters, InHand
<1>5. Quiet' BY <1>1 DEF Quiet
<1>6. Verdict' BY <1>1 DEF Verdict, InHand, VerdictIsConjunction
<1>7. QED BY <1>2, <1>3, <1>4, <1>5, <1>6

LEMMA ControlStep == ASSUME IInv, Control PROVE IInv'
<1> USE DEF IInv
<1>1. /\ pc[Master] = "out" /\ pc' = [pc EXCEPT ![Master] = "adding"]
      /\ added' = {} /\ ran' = {} /\ failed' = {}
      /\ UNCHANGED <<queue, nIdle, nTotal, nTodo, fAllOk, taken, left, fOk, unwinding, ret>>
  BY DEF Control, counters
<1>2. pc \in [Threads -> Places] /\ Master \in Threads BY DEF TypeOK, Threads
<1>3. TypeOK' BY <1>1, <1>2 DEF TypeOK, Places
<1>4. Busy(pc') = Busy(pc) /\ Asleep(pc') = Asleep(pc) BY <1>1, <1>2 DEF Busy, Asleep
<1>5. Placement' BY <1>1, <1>4 DEF Placement, Busy
<1>6. Counters' BY <1>1, <1>4 DEF Counters, InHand
<1>7. Quiet' BY <1>1, <1>2 DEF Quiet
<1>8. /\ queue = {} /\ fAllOk /\ \A t \in Threads : taken[t] = {} BY <1>1 DEF Quiet
<1>9. InHand = {} /\ Busy(pc) = {} BY <1>8 DEF InHand, Busy, Placement
<1>10. Verdict'
  <2>1. (queue \cup InHand \cup ran \subseteq added)' BY <1>1, <1>8, <1>9 DEF InHand
  <2>2. fAllOk' /\ Busy(pc') = {} BY <1>1, <1>4, <1>8, <1>9
  <2>3. pc'[Master] = "adding" BY <1>1, <1>2
  <2>4. QED BY <1>1, <2>1, <2>2, <2>3 DEF Verdict, VerdictIsConjunction
<1>11. QED BY <1>3, <1>5, <1>6, <1>7, <1>10

LEMMA AddStep == ASSUME IInv, Add PROVE IInv'
<1> USE DEF IInv
<1>1. PICK vChecks \in SUBSET (Checks \ added), ws \in SUBSET {w \in Workers : pc[w] = "wait"} :
        /\ pc[Master] = "adding"
        /\ queue' = queue \cup vChecks
        /\ nTodo' = nTodo + Cardinality(vChecks)
        /\ added' = added \cup vChecks
        /\ pc' = [t \in Threads |-> IF t \in ws THEN "woken" ELSE pc[t]]
        /\ UNCHANGED <<nIdle, nTotal, fAllOk, taken, left, fOk, unwinding, ret, ran, failed>>
  <2>1. \A n : \A ws \in Woken(n) : ws \in SUBSET {w \in Workers : pc[w] = "wait"}
    BY DEF Woken
  <2>2. QED BY <2>1 DEF Add
<1>2. /\ queue \in SUBSET Checks /\ added \in SUBSET Checks /\ nTodo \in Nat
      /\ pc \in [Threads -> Places] /\ taken \in [Threads -> SUBSET Checks]
  BY DEF TypeOK
<1>3. /\ IsFiniteSet(vChecks) /\ Cardinality(vChecks) \in Nat
  BY ChecksFinite
<1>4. \A t \in Threads : \/ pc'[t] = pc[t]
                         \/ t \in Workers /\ pc[t] = "wait" /\ pc'[t] = "woken"
  BY <1>1
<1>5. pc'[Master] = "adding" BY <1>1, CheckQueueAssumption DEF Threads
<1>6. TypeOK' BY <1>1, <1>2, <1>3 DEF TypeOK, Places
<1>7. Busy(pc') = Busy(pc) /\ Asleep(pc') = Asleep(pc) BY <1>4 DEF Busy, Asleep
<1>8. Placement'
  <2>1. \A t \in Threads : vChecks \cap taken[t] = {} BY DEF Verdict, InHand
  <2>2. QED BY <1>1, <1>7, <2>1 DEF Placement, Busy
<1>9. Counters'
  <2>1. queue \cup InHand \in SUBSET Checks BY <1>2 DEF InHand
  <2>2. IsFiniteSet(queue \cup InHand) BY <2>1, ChecksFinite
  <2>3. (queue \cup InHand) \cap vChecks = {} BY DEF Verdict
  <2>4. (queue \cup InHand)' = (queue \cup InHand) \cup vChecks BY <1>1 DEF InHand
  <2>5. nTodo' = Cardinality((queue \cup InHand)')
    BY <1>1, <1>3, <2>2, <2>3, <2>4, DisjointUnion DEF Counters
  <2>6. QED BY <1>1, <1>7, <2>5 DEF Counters
<1>10. Quiet' BY <1>5 DEF Quiet
<1>11. Verdict'
  <2>1. (queue \cup InHand \cup ran \subseteq added)' BY <1>1 DEF Verdict, InHand
  <2>2. QED BY <1>1, <1>5, <1>7, <2>1 DEF Verdict, VerdictIsConjunction
<1>12. QED BY <1>6, <1>8, <1>9, <1>10, <1>11

-----------------------------------------------------------------------------
(* The invariant and what follows from it.                                 *)

LEMMA InitIInv == Init => IInv
<1> SUFFICES ASSUME Init PROVE IInv OBVIOUS
<1>1. TypeOK BY DEF Init, TypeOK, Places
<1>2. Master \in Threads BY DEF Threads
<1>3. /\ InHand = {} /\ Busy(pc) = {} /\ Asleep(pc) = {}
  BY DEF Init, InHand, Busy, Asleep
<1>4. Placement BY DEF Init, Placement
<1>5. Counters
  <2>1. Cardinality({}) = 0 BY FS_EmptySet
  <2>2. queue \cup InHand = {} BY <1>3 DEF Init
  <2>3. QED BY <1>3, <2>1, <2>2 DEF Init, Counters
<1>6. Quiet BY DEF Init, Quiet
<1>7. Verdict
  BY <1>2, <1>3 DEF Init, Verdict, VerdictIsConjunction
<1>8. QED BY <1>1, <1>4, <1>5, <1>6, <1>7 DEF IInv

LEMMA NextIInv == IInv /\ [Next]_vars => IInv'
<1> SUFFICES ASSUME IInv, [Next]_vars PROVE IInv' OBVIOUS
<1>1. CASE Control BY <1>1, ControlStep
<1>2. CASE Add BY <1>2, AddStep
<1>3. ASSUME NEW t \in Threads, Enter(t) \/ Resume(t) \/ RunCheck(t) \/ CleanUp(t)
      PROVE  IInv'
  BY <1>3, EnterStep, ResumeStep, RunCheckStep, CleanUpStep
<1>4. pc \in [Threads -> Places] /\ unwinding \in BOOLEAN /\ Master \in Threads
  BY DEF IInv, TypeOK, Threads
<1>5. ASSUME NEW t \in Threads, SpuriousWake(t)
      PROVE  IInv'
  <2>1. /\ pc' \in [Threads -> Places]
        /\ Busy(pc') = Busy(pc) /\ Asleep(pc') \subseteq Asleep(pc)
        /\ pc'[Master] \in {"out", "gone"} <=> pc[Master] \in {"out", "gone"}
        /\ pc'[Master] = "out" => pc[Master] = "out"
    BY <1>4, <1>5 DEF SpuriousWake, Busy, Asleep, Places
  <2>2. unwinding' \in BOOLEAN /\ UNCHANGED <<queue, counters, taken, left, fOk, ret, history>>
    BY <1>4, <1>5 DEF SpuriousWake
  <2>3. QED BY <2>1, <2>2, MoveStep
<1>6. ASSUME NEW w \in Workers, Interrupt(w)
      PROVE  IInv'
  <2>1. w \in Threads /\ w # Master BY CheckQueueAssumption DEF Threads
  <2>2. /\ pc' \in [Threads -> Places]
        /\ Busy(pc') = Busy(pc) /\ Asleep(pc') \subseteq Asleep(pc)
        /\ pc'[Master] = pc[Master]
    BY <1>4, <1>6, <2>1 DEF Interrupt, Busy, Asleep, Places
  <2>3. unwinding' \in BOOLEAN /\ UNCHANGED <<queue, counters, taken, left, fOk, ret, history>>
    BY <1>4, <1>6 DEF Interrupt
  <2>4. QED BY <2>2, <2>3, MoveStep
<1>7. CASE InterruptMaster
  <2>1. /\ pc' \in [Threads -> Places]
        /\ Busy(pc') = Busy(pc) /\ Asleep(pc') \subseteq Asleep(pc)
        /\ pc'[Master] = "adding" /\ pc[Master] \in {"wait", "woken"}
    BY <1>4, <1>7 DEF InterruptMaster, Busy, Asleep, Places
  <2>2. unwinding' \in BOOLEAN /\ UNCHANGED <<queue, counters, taken, left, fOk, ret, history>>
    BY <1>7 DEF InterruptMaster
  <2>3. QED BY <2>1, <2>2, MoveStep
<1>8. CASE UNCHANGED vars
  BY <1>8 DEF vars, counters, history, IInv, TypeOK, Placement, Counters, InHand, Busy,
              Asleep, Quiet, Verdict, VerdictIsConjunction
<1>9. QED BY <1>1, <1>2, <1>3, <1>5, <1>6, <1>7, <1>8 DEF Next

\* The inductive invariant holds in every reachable state.
THEOREM Invariance == Spec => []IInv
BY InitIInv, NextIInv, PTL DEF Spec

\* Type invariant of the queue and of the threads of its pool.
THEOREM TypeCorrect == Spec => []TypeOK
<1>1. IInv => TypeOK BY DEF IInv
<1>2. QED BY <1>1, Invariance, PTL

\* nTodo is the number of checks queued or in a batch, for any number of
\* threads, through spurious wake-ups and interruptions.
THEOREM TodoIsAccurate == Spec => []TodoCounts
<1>1. IInv => TodoCounts
  <2>1. SUFFICES ASSUME IInv, NEW t \in Threads
                 PROVE  Cardinality(taken[t]) <= nTodo
    BY DEF IInv, Counters, TodoCounts
  <2>2. queue \cup InHand \in SUBSET Checks /\ taken[t] \in SUBSET (queue \cup InHand)
    BY <2>1 DEF IInv, TypeOK, InHand
  <2>3. IsFiniteSet(queue \cup InHand) BY <2>2, ChecksFinite
  <2>4. Cardinality(taken[t]) <= Cardinality(queue \cup InHand) BY <2>2, <2>3, FS_Subset
  <2>5. QED BY <2>1, <2>4 DEF IInv, Counters
<1>2. QED BY <1>1, Invariance, PTL

\* The assertion of CCheckQueueControl's constructor never fails.
THEOREM AssertionHolds == Spec => []ControlFindsIdle
<1>1. IInv => ControlFindsIdle
  <2>1. SUFFICES ASSUME IInv, pc[Master] = "out"
                 PROVE  IsIdle
    BY DEF ControlFindsIdle
  <2>2. queue = {} /\ fAllOk /\ \A t \in Threads : taken[t] = {}
    BY <2>1 DEF IInv, Quiet
  <2>3. queue \cup InHand = {} /\ Busy(pc) = {}
    BY <2>1, <2>2 DEF IInv, Placement, InHand, Busy
  <2>4. Cardinality({}) = 0 BY FS_EmptySet
  <2>5. nTodo = 0 BY <2>1, <2>3, <2>4 DEF IInv, Counters
  <2>6. nTotal = nIdle BY <2>1, <2>3, <2>4 DEF IInv, Counters, TypeOK
  <2>7. QED BY <2>2, <2>5, <2>6 DEF IsIdle
<1>2. QED BY <1>1, Invariance, PTL

\* Wait() returns true exactly when no check of the block failed, and then
\* every one was run: for every number of workers, checks and batch size.
THEOREM VerdictCorrect == Spec => []VerdictIsConjunction
<1>1. IInv => VerdictIsConjunction BY DEF IInv, Verdict
<1>2. QED BY <1>1, Invariance, PTL

\* No thread keeps a check after the control of its block is gone.
THEOREM NoCheckOutlivesControl == Spec => []ChecksDieWithControl
<1>1. IInv => ChecksDieWithControl BY DEF IInv, Quiet, ChecksDieWithControl, InHand
<1>2. QED BY <1>1, Invariance, PTL

-----------------------------------------------------------------------------
(* Mining diversity: arithmetic.                                           *)

LEMMA AsIntType == ASSUME NEW n \in Int PROVE AsInt(n) \in Int
<1>1. 2 * IntMax + 2 \in Nat \ {0} BY DiversityAssumption
<1>2. n + IntMax + 1 \in Int BY DiversityAssumption
<1>3. (n + IntMax + 1) % (2 * IntMax + 2) \in Int BY <1>1, <1>2
<1>4. QED BY <1>3, DiversityAssumption DEF AsInt

LEMMA QuotientType == ASSUME NEW n \in Int PROVE Quotient(n) \in Int
BY DiversityAssumption DEF Quotient

LEMMA ShareType == ASSUME NEW count \in Nat PROVE Share(count) \in Int
<1>1. count * Diversity \in Int BY DiversityAssumption
<1>2. AsInt(AsInt(count * Diversity) - 1) \in Int BY <1>1, AsIntType
<1>3. QED BY <1>2, QuotientType DEF Share

\* Two blocks of one miner are never required to be further apart than there
\* are miners, and GetActiveMinerCount is what this leaves.
LEMMA SpacingBounds ==
    ASSUME NEW count \in Nat \ {0}
    PROVE  Spacing(count) \in 1..count
BY ShareType DEF Spacing

LEMMA ActiveCount ==
    ASSUME m_ClearedMinerCount \in Nat \ {0}
    PROVE  /\ GetActiveMinerCount \in 1..m_ClearedMinerCount
           /\ GetActiveMinerCount <=
                IF m_Block + 1 < SetupFirstBlocks THEN m_ClearedMinerCount
                ELSE m_ClearedMinerCount - (Spacing(m_ClearedMinerCount) - 1)
<1>1. Share(m_ClearedMinerCount) \in Int BY ShareType
<1>2. QED BY <1>1 DEF GetActiveMinerCount, Spacing

-----------------------------------------------------------------------------
(* The barred miners.                                                      *)

LEMMA LastMined ==
    ASSUME DiversityTypeOK, NEW a \in Miners, Last(a) # 0
    PROVE  Last(a) \in 0..m_Block /\ chain[Last(a) + 1].miner = a
<1>1. MinedBy(a) # {} BY DEF Last
<1>2. m_Block \in Nat /\ MinedBy(a) \in SUBSET (0..m_Block)
  <2>1. Len(chain) \in Nat BY DEF DiversityTypeOK
  <2>2. QED BY <1>1, <2>1 DEF MinedBy, m_Block
<1>3. \E b \in MinedBy(a) : \A c \in MinedBy(a) : c <= b
  BY <1>1, <1>2, Greatest
<1>4. Last(a) \in MinedBy(a) BY <1>1, <1>3 DEF Last
<1>5. QED BY <1>4 DEF MinedBy

Barred == {a \in Permitted : ~CanMine(a)}

LEMMA PermittedType ==
    ASSUME DiversityTypeOK
    PROVE  /\ Permitted \in SUBSET Miners /\ IsFiniteSet(Permitted)
           /\ m_ClearedMinerCount \in Nat /\ Len(chain) \in Nat
<1>1. Len(chain) \in Nat BY DEF DiversityTypeOK
<1>2. Permitted \in SUBSET Miners
  <2>1. CASE chain = <<>> BY <2>1 DEF Permitted
  <2>2. CASE chain # <<>>
    <3> DEFINE Block == [miner : Miners, permitted : SUBSET Miners]
    <3>1. chain \in Seq(Block) BY DEF DiversityTypeOK
    <3> HIDE DEF Block
    <3>2. chain[Len(chain)] \in Block BY <2>2, <3>1
    <3>3. QED BY <2>2, <3>2 DEF Permitted, Block
  <2>3. QED BY <2>1, <2>2
<1>3. IsFiniteSet(Permitted) BY <1>2, DiversityAssumption, FS_Subset
<1>4. QED BY <1>1, <1>2, <1>3, FS_CardinalityType DEF m_ClearedMinerCount

\* Nobody is barred in the setup period; later the last blocks of the barred
\* miners are different ones of the Spacing - 1 last blocks.
LEMMA FewBarred ==
    ASSUME DiversityTypeOK, Permitted # {}
    PROVE  /\ IsFiniteSet(Barred) /\ Cardinality(Barred) \in Nat
           /\ m_Block + 1 < SetupFirstBlocks => Cardinality(Barred) = 0
           /\ Cardinality(Barred) <= Spacing(m_ClearedMinerCount) - 1
<1> DEFINE d == Spacing(m_ClearedMinerCount)
           window == (m_Block + 1 - (d - 1))..m_Block
           f == [a \in Barred |-> Last(a)]
<1>1. /\ Permitted \in SUBSET Miners /\ IsFiniteSet(Permitted)
      /\ m_ClearedMinerCount \in Nat /\ m_Block \in Int
  BY PermittedType DEF m_Block
<1>2. m_ClearedMinerCount # 0 BY <1>1, FS_EmptySet DEF m_ClearedMinerCount
<1>3. d \in 1..m_ClearedMinerCount BY <1>1, <1>2, SpacingBounds
<1>4. Barred \in SUBSET Permitted BY DEF Barred
<1>5. IsFiniteSet(Barred) /\ Cardinality(Barred) \in Nat
  BY <1>1, <1>4, FS_Subset, FS_CardinalityType
<1>6. ASSUME NEW a \in Barred
      PROVE  /\ a \in Miners /\ Last(a) # 0
             /\ m_Block + 1 >= SetupFirstBlocks
             /\ m_Block + 1 - Last(a) <= d - 1
  <2>1. a \in Permitted /\ ~CanMine(a) BY DEF Barred
  <2>2. Last(a) # 0 /\ IsBarredByDiversity(m_Block + 1, Last(a), m_ClearedMinerCount)
    BY <2>1 DEF CanMine
  <2>3. a \in Miners BY <1>1, <2>1
  <2>4. Last(a) \in Int BY <1>1, <2>2, <2>3, LastMined
  <2>5. /\ m_Block + 1 >= SetupFirstBlocks
        /\ m_Block + 1 - Last(a) <= d - 1
    BY <1>1, <1>3, <2>2, <2>4, DiversityAssumption DEF IsBarredByDiversity
  <2>6. QED BY <2>2, <2>3, <2>5
<1>7. m_Block + 1 < SetupFirstBlocks => Cardinality(Barred) = 0
  <2>1. m_Block + 1 < SetupFirstBlocks => Barred = {}
    BY <1>1, <1>6, DiversityAssumption
  <2>2. QED BY <2>1, FS_EmptySet
<1>8. \A a \in Barred : Last(a) \in 0..m_Block /\ chain[Last(a) + 1].miner = a
  BY <1>6, LastMined
<1> HIDE DEF d
<1>9. f \in Injection(Barred, window)
  <2>1. \A a \in Barred : Last(a) \in window BY <1>1, <1>3, <1>6, <1>8
  <2>2. \A a, b \in Barred : Last(a) = Last(b) => a = b BY <1>8
  <2>3. QED BY <2>1, <2>2 DEF Injection, IsInjective
<1>10. IsFiniteSet(window) /\ Cardinality(window) = d - 1
  <2>1. m_Block + 1 - (d - 1) \in Int /\ d \in Nat \ {0} BY <1>1, <1>3
  <2>2. QED BY <1>1, <2>1, FS_Interval
<1>11. Cardinality(Barred) <= Cardinality(window)
  BY <1>9, <1>10, FS_Injection
<1>12. QED BY <1>5, <1>7, <1>10, <1>11 DEF d

LEMMA EnoughMiners == DiversityTypeOK => ActiveMinersCanMine
<1> SUFFICES ASSUME DiversityTypeOK, Permitted # {}
             PROVE  Cardinality({a \in Miners : CanMine(a)}) >= GetActiveMinerCount
  BY DEF ActiveMinersCanMine
<1> DEFINE able == {a \in Miners : CanMine(a)}
           n == m_ClearedMinerCount
<1>1. /\ Permitted \in SUBSET Miners /\ IsFiniteSet(Permitted) /\ n \in Nat
  BY PermittedType
<1>2. n # 0 BY <1>1, FS_EmptySet DEF m_ClearedMinerCount
<1>3. able = Permitted \ Barred BY <1>1 DEF Barred, CanMine
<1>4. Permitted \cap Barred = Barred BY DEF Barred
<1>5. Cardinality(able) = n - Cardinality(Barred)
  BY <1>1, <1>3, <1>4, FS_Difference DEF m_ClearedMinerCount
<1>6. /\ Cardinality(Barred) \in Nat
      /\ m_Block + 1 < SetupFirstBlocks => Cardinality(Barred) = 0
      /\ Cardinality(Barred) <= Spacing(n) - 1
  BY FewBarred
<1>7. Spacing(n) \in 1..n BY <1>1, <1>2, SpacingBounds
<1>8. /\ GetActiveMinerCount \in 1..n
      /\ GetActiveMinerCount <= IF m_Block + 1 < SetupFirstBlocks THEN n
                                ELSE n - (Spacing(n) - 1)
  BY <1>1, <1>2, ActiveCount
<1> HIDE DEF n, able
<1>9. Cardinality(able) >= GetActiveMinerCount
  <2>1. CASE m_Block + 1 < SetupFirstBlocks BY <1>1, <1>5, <1>6, <1>8, <2>1
  <2>2. CASE ~(m_Block + 1 < SetupFirstBlocks) BY <1>1, <1>5, <1>6, <1>7, <1>8, <2>2
  <2>3. QED BY <2>1, <2>2
<1>10. QED BY <1>9 DEF able

\* Type invariant of the chain.
THEOREM DiversityTypeCorrect == DiversitySpec => []DiversityTypeOK
<1>1. DiversityInit => DiversityTypeOK BY DEF DiversityInit, DiversityTypeOK
<1>2. DiversityTypeOK /\ [DiversityNext]_chain => DiversityTypeOK'
  <2> SUFFICES ASSUME DiversityTypeOK, [DiversityNext]_chain PROVE DiversityTypeOK' OBVIOUS
  <2>1. ASSUME NEW a \in Miners, Connect(a) PROVE DiversityTypeOK'
    BY <2>1 DEF Connect, DiversityTypeOK
  <2>2. ASSUME NEW n \in 0..MaxBlock, Disconnect(n) PROVE DiversityTypeOK'
    <3> DEFINE Block == [miner : Miners, permitted : SUBSET Miners]
    <3>1. chain \in Seq(Block) BY DEF DiversityTypeOK
    <3>2. n \in 0..Len(chain) BY <2>2, <3>1, DiversityAssumption DEF Disconnect
    <3> HIDE DEF Block
    <3>3. SubSeq(chain, 1, n) \in Seq(Block) BY <3>1, <3>2
    <3>4. QED BY <2>2, <3>3 DEF Disconnect, DiversityTypeOK, Block
  <2>3. CASE UNCHANGED chain BY <2>3 DEF DiversityTypeOK
  <2>4. QED BY <2>1, <2>2, <2>3 DEF DiversityNext
<1>3. QED BY <1>1, <1>2, PTL DEF DiversitySpec

\* At least GetActiveMinerCount of the permitted miners may mine the next
\* block, for every share, number of miners and history of grants,
\* revocations and reorganisations, and even if the product overflows.
THEOREM DiversityLeavesMiners == DiversitySpec => []ActiveMinersCanMine
BY DiversityTypeCorrect, EnoughMiners, PTL

\* The chain is never stuck by mining diversity while anybody is permitted.
THEOREM NeverStuck == DiversitySpec => [](Permitted # {} => \E a \in Miners : CanMine(a))
<1>1. DiversityTypeOK => (Permitted # {} => \E a \in Miners : CanMine(a))
  <2> SUFFICES ASSUME DiversityTypeOK, Permitted # {}, \A a \in Miners : ~CanMine(a) PROVE FALSE
    OBVIOUS
  <2>1. {a \in Miners : CanMine(a)} = {} OBVIOUS
  <2>2. 0 >= GetActiveMinerCount BY <2>1, EnoughMiners, FS_EmptySet DEF ActiveMinersCanMine
  <2>3. m_ClearedMinerCount \in Nat \ {0}
    BY PermittedType, FS_EmptySet DEF m_ClearedMinerCount
  <2>4. GetActiveMinerCount >= 1 BY <2>3, ActiveCount
  <2>5. QED BY <2>2, <2>3, <2>4, ActiveCount
<1>2. QED BY <1>1, DiversityTypeCorrect, PTL

-----------------------------------------------------------------------------
(* The wait.                                                               *)

\* A product that is an int is what the code computes with.
LEMMA AsIntSame == ASSUME NEW n \in 0..IntMax PROVE AsInt(n) = n
<1>1. IntMax \in Nat BY DiversityAssumption
<1>2. n + IntMax + 1 \in 0..(2 * IntMax + 1) BY <1>1
<1>3. (n + IntMax + 1) % (2 * IntMax + 2) = n + IntMax + 1 BY <1>1, <1>2
<1>4. QED BY <1>1, <1>3 DEF AsInt

LEMMA ScaledUp == ASSUME NEW k \in Nat, NEW x \in Nat, NEW y \in Nat, x <= y
                  PROVE  k * x <= k * y
<1>1. y - x \in Nat /\ y = x + (y - x) OBVIOUS
<1>2. k * y = k * x + k * (y - x) BY <1>1
<1>3. k * (y - x) \in Nat BY <1>1
<1>4. QED BY <1>2, <1>3

LEMMA RoundedUp == ASSUME NEW x \in Nat, NEW g \in Nat \ {0}
                   PROVE  x \div g \in Nat /\ x + 1 <= (x \div g + 1) * g
<1>1. x \div g \in Nat OBVIOUS
<1>2. x + 1 <= (x \div g + 1) * g OBVIOUS
<1>3. QED BY <1>1, <1>2

\* The share of the miners, rounded up, is a wait between two blocks.
LEMMA SpacingLongEnough ==
    ASSUME NEW count \in Nat \ {0}, count * Diversity <= IntMax
    PROVE  Spacing(count) * Granularity >= count * Diversity
<1> DEFINE p == count * Diversity
           q == (p - 1) \div Granularity
<1>1. /\ Diversity \in Nat /\ Granularity \in Nat \ {0} /\ Diversity <= Granularity
      /\ IntMax \in Nat /\ p \in Nat
  BY DiversityAssumption
<1>2. count * Diversity <= count * Granularity BY <1>1, ScaledUp
<1>3. CASE Diversity = 0
  <2>1. p = 0 BY <1>3
  <2>2. Spacing(count) \in 1..count BY SpacingBounds
  <2>3. Spacing(count) * Granularity \in Nat BY <1>1, <2>2
  <2>4. QED BY <2>1, <2>3
<1>4. CASE Diversity > 0
  <2>1. p >= 1
    <3>1. Diversity * 1 <= Diversity * count BY <1>1, ScaledUp
    <3>2. QED BY <1>1, <1>4, <3>1
  <2> HIDE DEF p
  <2>2. p \in 0..IntMax /\ p - 1 \in 0..IntMax BY <1>1, <2>1 DEF p
  <2>3. Share(count) = q
    <3>1. AsInt(p) = p /\ AsInt(p - 1) = p - 1 BY <2>2, AsIntSame
    <3>2. Share(count) = Quotient(p - 1) BY <1>4, <3>1 DEF Share, p
    <3>3. QED BY <1>1, <2>1, <3>2 DEF Quotient
  <2>4. q \in Nat /\ p <= (q + 1) * Granularity
    <3>1. p - 1 \in Nat /\ p = p - 1 + 1 BY <1>1, <2>1
    <3>2. QED BY <1>1, <3>1, RoundedUp
  <2> HIDE DEF q
  <2>5. Spacing(count) = IF q + 1 > count THEN count ELSE q + 1
    BY <2>3, <2>4 DEF Spacing
  <2>6. QED BY <1>2, <2>4, <2>5 DEF p
<1>5. QED BY <1>1, <1>3, <1>4

\* "Miners must wait <mining-diversity>*<active miners> between blocks": the wait is
\* never shorter, as long as the product of the share and the number of miners is an
\* int; when it is not, the run miner_diversity_int shows a shorter one.
THEOREM WaitIsLongEnough ==
    ASSUME Cardinality(Miners) * Diversity <= IntMax
    PROVE  DiversitySpec => []MinersWaitTheirShare
<1>1. DiversityTypeOK => MinersWaitTheirShare
  <2> SUFFICES ASSUME DiversityTypeOK, m_ClearedMinerCount > 0
               PROVE  Spacing(m_ClearedMinerCount) * Granularity
                          >= m_ClearedMinerCount * Diversity
    BY DEF MinersWaitTheirShare
  <2> DEFINE n == m_ClearedMinerCount
  <2>1. n \in Nat \ {0} /\ Permitted \in SUBSET Miners BY PermittedType
  <2>2. Cardinality(Miners) \in Nat /\ n <= Cardinality(Miners)
    BY <2>1, DiversityAssumption, FS_CardinalityType, FS_Subset DEF m_ClearedMinerCount
  <2>3. Diversity \in Nat /\ IntMax \in Nat BY DiversityAssumption
  <2> HIDE DEF n
  <2>4. Diversity * n <= Diversity * Cardinality(Miners) BY <2>1, <2>2, <2>3, ScaledUp
  <2>5. n * Diversity <= IntMax BY <2>1, <2>2, <2>3, <2>4
  <2>6. Spacing(n) * Granularity >= n * Diversity BY <2>1, <2>5, SpacingLongEnough
  <2>7. QED BY <2>6 DEF n
<1>2. QED BY <1>1, DiversityTypeCorrect, PTL
=============================================================================
