---------------------------- MODULE BatchProofs -----------------------------
(***************************************************************************)
(* Proofs about Batch, for every set of jobs.                              *)
(*                                                                         *)
(* The inductive invariant IInv says that every bot created is in exactly  *)
(* one place (OnePlace), that the three counters are what the places and   *)
(* the two program counters make them (Counts), what run may still create  *)
(* in a wave (Waves), and that nothing is created any more once run has    *)
(* seen the total reached (Ending).                                        *)
(***************************************************************************)
EXTENDS Batch, FiniteSetTheorems, SequenceTheorems, TLAPS

Flag(p) == IF p THEN 1 ELSE 0

(* The bots created so far: run counts the cursor up before it creates the bot. *)
Created == IF runPc \in {"wg", "enqueue"} THEN cursor - 1 ELSE cursor

OnePlace ==
  /\ Created \in Nat
  /\ AtWork \cup reported = 1..Created
  /\ AtWork \cap reported = {}
  /\ \A j, k \in DOMAIN pipeline : pipeline[j] = pipeline[k] => j = k
  /\ Queued \cap (running \cup onDone \cup onErr) = {}
  /\ running \cap (onDone \cup onErr) = {}
  /\ onDone \cap onErr = {}

Counts ==
  /\ slots = Cardinality(AtWork) + Flag(runPc \in {"wg", "enqueue"})
                                 + Flag(loopPc = "slot")
  /\ wg = Cardinality(AtWork) + Flag(runPc = "enqueue") + Flag(loopPc \in {"slot", "wg"})
  /\ curNum = job.cur + Cardinality(reported) - Flag(loopPc \in {"slot", "wg", "count"})

Creating == runPc \in {"slot", "wg", "enqueue"}
Quiet    == runPc \in {"top", "update", "check", "done", "sleep"}

Waves ==
  /\ ~exitOpen /\ runPc # "exited"
  /\ Quiet => AtWork = {} /\ loopPc \notin {"slot", "wg"}
  /\ Creating => left >= 1 /\ Created + left <= job.total - job.cur + 1

Ending ==
  /\ batchDone <=> loopPc = "exited"
  /\ done = 1 \/ runPc = "done" \/ loopPc \in {"exit", "exited"} =>
       curNum >= job.total /\ ~Creating /\ AtWork = {}

IInv ==
  TypeOK /\ OnePlace /\ Counts /\ Waves /\ Ending /\ LaunchBound /\ RowBehind

-----------------------------------------------------------------------------
(* What is in a channel after a send and after a receive. *)
LEMMA SendElements ==
  ASSUME NEW S, NEW s \in Seq(S), NEW x \in S
  PROVE  /\ Append(s, x) \in Seq(S)
         /\ Len(Append(s, x)) = Len(s) + 1
         /\ DOMAIN Append(s, x) = 1..Len(s) + 1
         /\ \A k \in DOMAIN s : Append(s, x)[k] = s[k]
         /\ Append(s, x)[Len(s) + 1] = x
         /\ {Append(s, x)[k] : k \in DOMAIN Append(s, x)} = {s[k] : k \in DOMAIN s} \cup {x}
<1>1. /\ Append(s, x) \in Seq(S)
      /\ Len(Append(s, x)) = Len(s) + 1
      /\ DOMAIN Append(s, x) = 1..Len(s) + 1
      /\ DOMAIN s = 1..Len(s) /\ Len(s) \in Nat
      /\ \A k \in DOMAIN s : Append(s, x)[k] = s[k]
      /\ Append(s, x)[Len(s) + 1] = x
  OBVIOUS
<1>2. QED  BY <1>1

(* A receive takes the first element out of a channel and keeps the others. *)
LEMMA ReceiveElements ==
  ASSUME NEW S, NEW s \in Seq(S), s # <<>>
  PROVE  /\ Tail(s) \in Seq(S)
         /\ Len(Tail(s)) = Len(s) - 1
         /\ Head(s) \in S
         /\ DOMAIN Tail(s) = 1..Len(s) - 1
         /\ \A k \in DOMAIN Tail(s) : k + 1 \in DOMAIN s /\ Tail(s)[k] = s[k + 1]
         /\ {s[k] : k \in DOMAIN s} = {Tail(s)[k] : k \in DOMAIN Tail(s)} \cup {Head(s)}
<1>1. /\ Tail(s) \in Seq(S)
      /\ Len(Tail(s)) = Len(s) - 1
      /\ Len(s) \in Nat /\ Len(s) >= 1 /\ DOMAIN s = 1..Len(s)
      /\ DOMAIN Tail(s) = 1..Len(s) - 1
      /\ Head(s) = s[1] /\ Head(s) \in S
      /\ \A k \in DOMAIN Tail(s) : Tail(s)[k] = s[k + 1]
  OBVIOUS
<1>2. ASSUME NEW k \in DOMAIN s, k # 1
      PROVE  k - 1 \in DOMAIN Tail(s) /\ s[k] = Tail(s)[k - 1]
  <2>1. k \in 1..Len(s)
    BY <1>1
  <2>2. k - 1 \in 1..Len(s) - 1 /\ (k - 1) + 1 = k
    BY <1>1, <1>2, <2>1
  <2>3. QED  BY <1>1, <2>2
<1>3. \A k \in DOMAIN Tail(s) : k + 1 \in DOMAIN s
  BY <1>1
<1>4. \A k \in DOMAIN s : s[k] \in {Tail(s)[j] : j \in DOMAIN Tail(s)} \cup {Head(s)}
  BY <1>1, <1>2
<1>5. \A k \in DOMAIN Tail(s) : Tail(s)[k] \in {s[j] : j \in DOMAIN s}
  BY <1>1, <1>3
<1>6. Head(s) \in {s[j] : j \in DOMAIN s}
  BY <1>1
<1>7. {s[k] : k \in DOMAIN s} = {Tail(s)[k] : k \in DOMAIN Tail(s)} \cup {Head(s)}
  BY <1>4, <1>5, <1>6
<1>8. QED  BY <1>1, <1>3, <1>7

(* The bots at work and those that have reported are finitely many, together all created. *)
LEMMA AllCounted ==
  ASSUME OnePlace
  PROVE  /\ IsFiniteSet(AtWork) /\ IsFiniteSet(reported)
         /\ Cardinality(AtWork) \in Nat /\ Cardinality(reported) \in Nat
         /\ Cardinality(AtWork) + Cardinality(reported) = Created
         /\ Cardinality(AtWork) = 0 <=> AtWork = {}
<1>1. IsFiniteSet(1..Created) /\ Cardinality(1..Created) = Created
  BY FS_Interval DEF OnePlace
<1>2. AtWork \in SUBSET (1..Created) /\ reported \in SUBSET (1..Created)
  BY DEF OnePlace
<1>3. IsFiniteSet(AtWork) /\ IsFiniteSet(reported)
  BY <1>1, <1>2, FS_Subset
<1>4. Cardinality(AtWork) \in Nat /\ Cardinality(reported) \in Nat
  BY <1>3, FS_CardinalityType
<1>5. Cardinality(AtWork \cup reported)
        = Cardinality(AtWork) + Cardinality(reported) - Cardinality(AtWork \cap reported)
  BY <1>3, FS_Union
<1>6. Cardinality(AtWork \cap reported) = 0
  BY FS_EmptySet DEF OnePlace
<1>7. Cardinality(AtWork \cup reported) = Created
  BY <1>1 DEF OnePlace
<1>8. Cardinality(AtWork) = 0 <=> AtWork = {}
  BY <1>3, FS_EmptySet
<1>9. QED  BY <1>3, <1>4, <1>5, <1>6, <1>7, <1>8

-----------------------------------------------------------------------------
(* CreateBatch leaves a batch without bots, wherever its count starts. *)
LEMMA InitInductive == Init => IInv
<1> SUFFICES ASSUME Init PROVE IInv
  OBVIOUS
<1> USE DEF Init, Created, Flag
<1>1. job \in Jobs /\ job.cur \in Nat /\ job.total \in Int /\ job.size \in Nat \ {0}
  BY JobsAssumption
<1>2. AtWork = {} /\ Queued = {}
  BY DEF AtWork, Queued
<1>3. Cardinality({}) = 0
  BY FS_EmptySet
<1>4. TypeOK
  <2>1. pipeline \in Seq(Nat) /\ Len(pipeline) = 0
    OBVIOUS
  <2>2. Len(pipeline) <= job.size /\ slots \in 0..job.size /\ done \in 0..1
    BY <1>1, <2>1
  <2>3. /\ running \in SUBSET Nat /\ onDone \in SUBSET Nat /\ onErr \in SUBSET Nat
        /\ reported \in SUBSET Nat
    OBVIOUS
  <2>4. runPc \in RunPcs /\ loopPc \in LoopPcs
    BY DEF RunPcs, LoopPcs
  <2>5. /\ left \in Int /\ cursor \in Nat /\ curNum \in Nat /\ errors \in Nat
        /\ wg \in Nat /\ row \in Int
    BY <1>1 DEF Deleted
  <2>6. batchDone \in BOOLEAN /\ exitOpen \in BOOLEAN
    OBVIOUS
  <2>7. QED  BY ONLY <1>1, <2>1, <2>2, <2>3, <2>4, <2>5, <2>6 DEF TypeOK
<1>5. OnePlace
  BY <1>2 DEF OnePlace
<1>6. Counts
  BY <1>1, <1>2, <1>3 DEF Counts
<1>7. Waves /\ Ending /\ LaunchBound /\ RowBehind
  BY <1>1, <1>2, <1>3 DEF Waves, Ending, LaunchBound, RowBehind, Creating, Quiet, Deleted
<1>8. QED  BY <1>4, <1>5, <1>6, <1>7 DEF IInv

(* A step of run that creates no bot: it moves no bot and no result. *)
LEMMA RunMovesNoBot ==
  ASSUME IInv,
         RunWave \/ RunAddSlot \/ RunAddWg \/ RunWait \/ RunUpdate \/ RunCheck \/ RunDone
           \/ RunSleep
  PROVE  IInv'
<1> USE DEF IInv
<1>0. job' = job /\ job.cur \in Nat /\ job.total \in Int /\ job.size \in Nat \ {0}
  BY JobsAssumption DEF TypeOK, RunWave, RunAddSlot, RunAddWg, RunWait, RunUpdate,
     RunCheck, RunDone, RunSleep
<1>1. /\ AtWork' = AtWork /\ reported' = reported /\ Queued' = Queued
      /\ pipeline' = pipeline /\ running' = running /\ onDone' = onDone /\ onErr' = onErr
      /\ loopPc' = loopPc /\ errors' = errors /\ curNum' = curNum
      /\ batchDone' = batchDone /\ exitOpen' = exitOpen
  BY DEF RunWave, RunAddSlot, RunAddWg, RunWait, RunUpdate, RunCheck, RunDone, RunSleep,
     AtWork, Queued, bots, loopVars
<1>2. /\ Cardinality(AtWork) \in Nat /\ Cardinality(reported) \in Nat
      /\ Cardinality(AtWork) + Cardinality(reported) = Created
      /\ Cardinality(AtWork) = 0 <=> AtWork = {}
  BY AllCounted
<1> USE <1>0, <1>1, <1>2
<1>3. CASE RunWave
  <2>1. ~exitOpen /\ AtWork = {} /\ Created = cursor /\ cursor = Cardinality(reported)
    BY <1>3, <1>2 DEF RunWave, Waves, Quiet, Created
  <2>2. /\ left' = Smaller(job.size, Last)
        /\ runPc' = IF left' > 0 THEN "slot" ELSE "wait"
        /\ cursor' = cursor /\ slots' = slots /\ wg' = wg /\ done' = done /\ row' = row
    BY <1>3, <2>1 DEF RunWave, group
  <2>3. TypeOK'
    BY <2>2 DEF TypeOK, RunPcs, Smaller, Last
  <2>4. Created' = Created
    BY <1>3, <2>2 DEF RunWave, Created
  <2>5. OnePlace'
    BY <2>4 DEF OnePlace
  <2>6. Counts'
    BY <1>3, <2>2 DEF Counts, Flag, RunWave
  <2>7. job.cur + cursor <= curNum + 1
    BY <2>1 DEF Counts, Flag, TypeOK
  <2>8. left' <= job.total - curNum
    BY <2>2 DEF Smaller, Last, TypeOK
  <2>9. left' > 0 => left' >= 1 /\ Created' + left' <= job.total - job.cur + 1
    <3>1. left' \in Int /\ cursor \in Nat /\ curNum \in Nat
      BY <2>3 DEF TypeOK
    <3>2. Created' = cursor
      BY <2>1, <2>4
    <3>3. QED  BY <3>1, <3>2, <2>7, <2>8
  <2>10. Waves'
    BY <2>1, <2>2, <2>3, <2>9 DEF Waves, Quiet, Creating, TypeOK
  <2>11. Ending'
    BY <1>3, <2>2, <2>3, <2>8 DEF Ending, Creating, TypeOK
  <2>12. QED
    BY <2>2, <2>3, <2>5, <2>6, <2>10, <2>11 DEF LaunchBound, RowBehind, Deleted
<1>4. CASE RunAddSlot
  <2>1. /\ runPc = "slot" /\ runPc' = "wg" /\ slots < job.size
        /\ cursor' = cursor + 1 /\ slots' = slots + 1 /\ left' = left
        /\ wg' = wg /\ done' = done /\ row' = row
    BY <1>4 DEF RunAddSlot, RunGoes
  <2>2. TypeOK'
    BY <2>1 DEF TypeOK, RunPcs
  <2>3. Created' = Created
    BY <2>1, <2>2 DEF Created, TypeOK
  <2>4. OnePlace'
    BY <2>3 DEF OnePlace
  <2>5. Counts'
    BY <2>1 DEF Counts, Flag, TypeOK
  <2>6. Waves'
    BY <2>1, <2>3 DEF Waves, Quiet, Creating
  <2>7. Ending'
    BY <2>1 DEF Ending, Creating
  <2>8. LaunchBound'
    BY <2>1, <2>2 DEF LaunchBound, Waves, Creating, Created, TypeOK
  <2>9. QED
    BY <2>1, <2>2, <2>4, <2>5, <2>6, <2>7, <2>8 DEF RowBehind
<1>5. CASE RunAddWg
  <2>1. /\ runPc = "wg" /\ runPc' = "enqueue" /\ wg' = wg + 1
        /\ cursor' = cursor /\ slots' = slots /\ left' = left
        /\ done' = done /\ row' = row
    BY <1>5 DEF RunAddWg, RunGoes
  <2>2. TypeOK'
    BY <2>1 DEF TypeOK, RunPcs
  <2>3. Created' = Created
    BY <2>1 DEF Created
  <2>4. OnePlace'
    BY <2>3 DEF OnePlace
  <2>5. Counts'
    BY <2>1 DEF Counts, Flag, TypeOK
  <2>6. Waves'
    BY <2>1, <2>3 DEF Waves, Quiet, Creating
  <2>7. Ending'
    BY <2>1 DEF Ending, Creating
  <2>8. QED
    BY <2>1, <2>2, <2>4, <2>5, <2>6, <2>7 DEF RowBehind, LaunchBound
<1>6. CASE RunWait
  <2>1. /\ runPc = "wait" /\ runPc' = "update" /\ wg = 0 /\ wg' = wg
        /\ cursor' = cursor /\ slots' = slots /\ left' = left
        /\ done' = done /\ row' = row
    BY <1>6 DEF RunWait, RunGoes, group
  <2>2. TypeOK'
    BY <2>1 DEF TypeOK, RunPcs
  <2>3. Created' = Created
    BY <2>1 DEF Created
  <2>4. OnePlace'
    BY <2>3 DEF OnePlace
  <2>5. Counts'
    BY <2>1 DEF Counts, Flag
  <2>6. AtWork = {} /\ loopPc \notin {"slot", "wg"}
    BY <2>1 DEF Counts, Flag
  <2>7. Waves'
    BY <2>1, <2>6 DEF Waves, Quiet, Creating
  <2>8. Ending'
    BY <2>1 DEF Ending, Creating
  <2>9. QED
    BY <2>1, <2>2, <2>4, <2>5, <2>7, <2>8 DEF RowBehind, LaunchBound
<1>7. CASE RunUpdate
  <2>1. /\ runPc = "update" /\ runPc' = "check"
        /\ row' = Deleted \/ row' = curNum
        /\ cursor' = cursor /\ slots' = slots /\ wg' = wg /\ left' = left /\ done' = done
    BY <1>7 DEF RunUpdate, RunGoes, group
  <2>2. TypeOK'
    BY <2>1 DEF TypeOK, RunPcs, Deleted
  <2>3. Created' = Created
    BY <2>1 DEF Created
  <2>4. OnePlace'
    BY <2>3 DEF OnePlace
  <2>5. Counts'
    BY <2>1 DEF Counts, Flag
  <2>6. Waves'
    BY <2>1 DEF Waves, Quiet, Creating
  <2>7. Ending'
    BY <2>1 DEF Ending, Creating
  <2>8. RowBehind'
    BY <2>1 DEF RowBehind, Counts, Flag, TypeOK
  <2>9. QED
    BY <2>1, <2>2, <2>4, <2>5, <2>6, <2>7, <2>8 DEF LaunchBound
<1>8. CASE RunCheck
  <2>1. /\ runPc = "check" /\ runPc' = IF curNum >= job.total THEN "done" ELSE "sleep"
        /\ cursor' = cursor /\ slots' = slots /\ wg' = wg /\ left' = left
        /\ done' = done /\ row' = row
    BY <1>8 DEF RunCheck, group
  <2>2. TypeOK'
    BY <2>1 DEF TypeOK, RunPcs
  <2>3. Created' = Created
    BY <2>1 DEF Created
  <2>4. OnePlace'
    BY <2>3 DEF OnePlace
  <2>5. Counts'
    BY <2>1 DEF Counts, Flag
  <2>6. Waves'
    BY <2>1 DEF Waves, Quiet, Creating
  <2>7. AtWork = {}
    BY <2>1 DEF Waves, Quiet
  <2>8. Ending'
    BY <2>1, <2>7 DEF Ending, Creating
  <2>9. QED
    BY <2>1, <2>2, <2>4, <2>5, <2>6, <2>8 DEF RowBehind, LaunchBound
<1>9. CASE RunDone
  <2>1. /\ runPc = "done" /\ runPc' = "sleep" /\ done' = done + 1 /\ done < 1
        /\ cursor' = cursor /\ slots' = slots /\ wg' = wg /\ left' = left /\ row' = row
    BY <1>9 DEF RunDone, RunGoes, group
  <2>2. TypeOK'
    BY <2>1 DEF TypeOK, RunPcs
  <2>3. Created' = Created
    BY <2>1 DEF Created
  <2>4. OnePlace'
    BY <2>3 DEF OnePlace
  <2>5. Counts'
    BY <2>1 DEF Counts, Flag
  <2>6. Waves'
    BY <2>1 DEF Waves, Quiet, Creating
  <2>7. Ending'
    BY <2>1 DEF Ending, Creating
  <2>8. QED
    BY <2>1, <2>2, <2>4, <2>5, <2>6, <2>7 DEF RowBehind, LaunchBound
<1>10. CASE RunSleep
  <2>1. /\ runPc = "sleep" /\ runPc' = "top"
        /\ cursor' = cursor /\ slots' = slots /\ wg' = wg /\ left' = left
        /\ done' = done /\ row' = row
    BY <1>10 DEF RunSleep, RunGoes, group
  <2>2. TypeOK'
    BY <2>1 DEF TypeOK, RunPcs
  <2>3. Created' = Created
    BY <2>1 DEF Created
  <2>4. OnePlace'
    BY <2>3 DEF OnePlace
  <2>5. Counts'
    BY <2>1 DEF Counts, Flag
  <2>6. Waves'
    BY <2>1 DEF Waves, Quiet, Creating
  <2>7. Ending'
    BY <2>1 DEF Ending, Creating
  <2>8. QED
    BY <2>1, <2>2, <2>4, <2>5, <2>6, <2>7 DEF RowBehind, LaunchBound
<1>11. QED
  BY <1>3, <1>4, <1>5, <1>6, <1>7, <1>8, <1>9, <1>10

(* The bot that run creates is a new one. *)
LEMMA RunCreatesABot ==
  ASSUME IInv, RunEnqueue
  PROVE  /\ AtWork' = AtWork \cup {cursor} /\ cursor \notin AtWork \cup reported
         /\ Cardinality(AtWork') = Cardinality(AtWork) + 1
         /\ OnePlace' /\ IInv'
<1> USE DEF IInv
<1>0. job' = job /\ job.cur \in Nat /\ job.total \in Int /\ job.size \in Nat \ {0}
  BY JobsAssumption DEF TypeOK, RunEnqueue
<1>1. /\ runPc = "enqueue" /\ Len(pipeline) < job.size
      /\ pipeline' = Append(pipeline, cursor)
      /\ left' = left - 1 /\ runPc' = IF left' > 0 THEN "slot" ELSE "wait"
      /\ cursor' = cursor /\ slots' = slots /\ wg' = wg /\ done' = done /\ row' = row
      /\ running' = running /\ onDone' = onDone /\ onErr' = onErr
      /\ reported' = reported /\ loopPc' = loopPc /\ errors' = errors
      /\ curNum' = curNum /\ batchDone' = batchDone /\ exitOpen' = exitOpen
  BY DEF RunEnqueue, loopVars, group
<1>2. /\ IsFiniteSet(AtWork) /\ Cardinality(AtWork) \in Nat
      /\ Cardinality(reported) \in Nat
      /\ Cardinality(AtWork) + Cardinality(reported) = Created
  BY AllCounted
<1>3. /\ pipeline \in Seq(Nat) /\ cursor \in Nat /\ Created = cursor - 1
      /\ left \in Int /\ left >= 1
  BY <1>1 DEF TypeOK, Created, Waves, Creating
<1>4. /\ pipeline' \in Seq(Nat) /\ Len(pipeline') = Len(pipeline) + 1
      /\ DOMAIN pipeline' = 1..Len(pipeline) + 1
      /\ \A k \in DOMAIN pipeline : pipeline'[k] = pipeline[k]
      /\ pipeline'[Len(pipeline) + 1] = cursor
      /\ Queued' = Queued \cup {cursor}
  <2> DEFINE sent == Append(pipeline, cursor)
  <2>1. /\ sent \in Seq(Nat) /\ Len(sent) = Len(pipeline) + 1
        /\ DOMAIN sent = 1..Len(pipeline) + 1
        /\ \A k \in DOMAIN pipeline : sent[k] = pipeline[k]
        /\ sent[Len(pipeline) + 1] = cursor
        /\ {sent[k] : k \in DOMAIN sent} = {pipeline[k] : k \in DOMAIN pipeline} \cup {cursor}
    BY ONLY <1>3, SendElements
  <2>2. pipeline' = sent
    BY <1>1
  <2> HIDE DEF sent
  <2>3. QED  BY <2>1, <2>2 DEF Queued
<1>5. AtWork' = AtWork \cup {cursor}
  BY <1>1, <1>4 DEF AtWork
<1>6. cursor \notin AtWork \cup reported
  BY <1>3 DEF OnePlace
<1>7. Cardinality(AtWork') = Cardinality(AtWork) + 1
  BY <1>2, <1>5, <1>6, FS_AddElement
<1>8. Created' = cursor /\ 1..cursor = (1..Created) \cup {cursor}
  BY <1>1, <1>3 DEF Created, OnePlace
<1>9. OnePlace'
  <2>1. AtWork' \cup reported' = 1..Created' /\ AtWork' \cap reported' = {}
    BY <1>1, <1>5, <1>6, <1>8 DEF OnePlace
  <2>2. \A k \in DOMAIN pipeline : pipeline[k] # cursor
    BY <1>6 DEF AtWork, Queued
  <2>3. DOMAIN pipeline = 1..Len(pipeline) /\ Len(pipeline) \in Nat
    BY <1>3
  <2>4. \A k \in DOMAIN pipeline' : k \in DOMAIN pipeline \/ k = Len(pipeline) + 1
    BY <1>4, <2>3
  <2>5. \A j, k \in DOMAIN pipeline' : pipeline'[j] = pipeline'[k] => j = k
    BY <1>4, <2>2, <2>4 DEF OnePlace
  <2>6. cursor \notin running \cup onDone \cup onErr
    BY <1>6 DEF AtWork
  <2>7. Queued' \cap (running' \cup onDone' \cup onErr') = {}
    BY <1>1, <1>4, <2>6 DEF OnePlace
  <2>8. QED
    BY <1>1, <1>3, <1>8, <2>1, <2>5, <2>7 DEF OnePlace
<1>10. TypeOK'
  <2>1. Len(pipeline') <= job.size
    BY <1>0, <1>1, <1>3, <1>4
  <2>2. runPc' \in RunPcs
    BY <1>1 DEF RunPcs
  <2>3. QED
    BY <1>0, <1>1, <1>3, <1>4, <2>1, <2>2 DEF TypeOK
<1>11. Counts'
  BY <1>0, <1>1, <1>2, <1>7 DEF Counts, Flag
<1>12. Waves'
  BY <1>0, <1>1, <1>3, <1>8 DEF Waves, Quiet, Creating
<1>13. Ending'
  BY <1>1 DEF Ending, Creating
<1>14. LaunchBound' /\ RowBehind'
  BY <1>0, <1>1 DEF LaunchBound, RowBehind, Deleted
<1>15. QED
  BY <1>5, <1>6, <1>7, <1>9, <1>10, <1>11, <1>12, <1>13, <1>14

(* A step that leaves the program counters, the counters and what run keeps alone, and    *)
(* only moves bots at work from one place to another, preserves IInv when those places    *)
(* stay apart.                                                                            *)
LEMMA BotsMove ==
  ASSUME IInv,
         UNCHANGED <<job, runVars, loopVars, group, curNum, done, row>>,
         pipeline' \in Seq(Nat), Len(pipeline') <= Len(pipeline),
         running' \in SUBSET Nat, onDone' \in SUBSET Nat, onErr' \in SUBSET Nat,
         AtWork' = AtWork,
         \A j, k \in DOMAIN pipeline' : pipeline'[j] = pipeline'[k] => j = k,
         Queued' \cap (running' \cup onDone' \cup onErr') = {},
         running' \cap (onDone' \cup onErr') = {},
         onDone' \cap onErr' = {}
  PROVE  IInv'
<1> USE DEF IInv
<1>0. job' = job /\ job.cur \in Nat /\ job.total \in Int /\ job.size \in Nat \ {0}
  BY JobsAssumption DEF TypeOK
<1>1. /\ runPc' = runPc /\ left' = left /\ cursor' = cursor /\ loopPc' = loopPc
      /\ reported' = reported /\ errors' = errors /\ batchDone' = batchDone
      /\ exitOpen' = exitOpen /\ slots' = slots /\ wg' = wg /\ curNum' = curNum
      /\ done' = done /\ row' = row
  BY DEF runVars, loopVars, group
<1>2. Created' = Created
  BY <1>1 DEF Created
<1>3. OnePlace'
  BY <1>1, <1>2 DEF OnePlace
<1>4. TypeOK'
  <2>1. Len(pipeline') <= job.size
    BY <1>0 DEF TypeOK
  <2>2. QED  BY <1>0, <1>1, <2>1 DEF TypeOK
<1>5. Counts' /\ Waves' /\ Ending' /\ LaunchBound' /\ RowBehind'
  BY <1>0, <1>1, <1>2 DEF Counts, Flag, Waves, Quiet, Creating, Ending, LaunchBound,
     RowBehind, Deleted
<1>6. QED
  BY <1>3, <1>4, <1>5

(* A bot that starts or ends only changes its place. *)
LEMMA BotMoves ==
  ASSUME IInv, LoopStart \/ (\E b \in running : BotEnds(b))
  PROVE  IInv' /\ AtWork' = AtWork /\ reported' = reported
<1> USE DEF IInv
<1>1. CASE LoopStart
  <2> DEFINE b == Head(pipeline)
  <2>1. /\ pipeline # <<>> /\ pipeline' = Tail(pipeline)
        /\ running' = running \cup {b} /\ onDone' = onDone /\ onErr' = onErr
        /\ UNCHANGED <<job, runVars, loopVars, group, curNum, done, row>>
    BY <1>1 DEF LoopStart
  <2>2. pipeline \in Seq(Nat)
    BY DEF TypeOK
  <2>3. /\ pipeline' \in Seq(Nat) /\ Len(pipeline') = Len(pipeline) - 1 /\ b \in Nat
        /\ DOMAIN pipeline' = 1..Len(pipeline) - 1 /\ Len(pipeline) \in Nat
        /\ \A k \in DOMAIN pipeline' :
             k + 1 \in DOMAIN pipeline /\ pipeline'[k] = pipeline[k + 1]
        /\ Queued = Queued' \cup {b} /\ b = pipeline[1] /\ 1 \in DOMAIN pipeline
    <3> DEFINE rest == Tail(pipeline)
    <3>1. /\ rest \in Seq(Nat) /\ Len(rest) = Len(pipeline) - 1 /\ b \in Nat
          /\ DOMAIN rest = 1..Len(pipeline) - 1
          /\ \A k \in DOMAIN rest : k + 1 \in DOMAIN pipeline /\ rest[k] = pipeline[k + 1]
          /\ {pipeline[k] : k \in DOMAIN pipeline} = {rest[k] : k \in DOMAIN rest} \cup {b}
      BY ONLY <2>1, <2>2, ReceiveElements
    <3>2. b = pipeline[1] /\ 1 \in DOMAIN pipeline /\ Len(pipeline) \in Nat
      BY ONLY <2>1, <2>2
    <3>3. pipeline' = rest
      BY <2>1
    <3> HIDE DEF rest
    <3>4. QED  BY <3>1, <3>2, <3>3 DEF Queued
  <2>4. AtWork' = AtWork
    BY <2>1, <2>3 DEF AtWork
  <2>5. b \notin Queued'
    <3>1. \A k \in DOMAIN pipeline' : k \in Nat /\ k >= 1 /\ k + 1 # 1
      BY <2>3
    <3>2. \A k \in DOMAIN pipeline' : pipeline'[k] # b
      BY <2>3, <3>1 DEF OnePlace
    <3>3. QED  BY <3>2 DEF Queued
  <2>6. \A j, k \in DOMAIN pipeline' : pipeline'[j] = pipeline'[k] => j = k
    <3>1. SUFFICES ASSUME NEW j \in DOMAIN pipeline', NEW k \in DOMAIN pipeline',
                          pipeline'[j] = pipeline'[k]
                   PROVE  j = k
      OBVIOUS
    <3>2. j \in Int /\ k \in Int
      BY <2>3
    <3>3. j + 1 \in DOMAIN pipeline /\ k + 1 \in DOMAIN pipeline
          /\ pipeline[j + 1] = pipeline[k + 1]
      BY <2>3, <3>1
    <3>4. j + 1 = k + 1
      BY <3>3 DEF OnePlace
    <3>5. QED  BY <3>2, <3>4
  <2>7. Queued' \cap (running' \cup onDone' \cup onErr') = {}
    BY <2>1, <2>3, <2>5 DEF OnePlace
  <2>8. running' \cap (onDone' \cup onErr') = {} /\ onDone' \cap onErr' = {}
    BY <2>1, <2>3 DEF OnePlace
  <2>9. running' \in SUBSET Nat /\ onDone' \in SUBSET Nat /\ onErr' \in SUBSET Nat
    BY <2>1, <2>3 DEF TypeOK
  <2>10. Len(pipeline') <= Len(pipeline)
    BY <2>3
  <2>11. IInv'
    BY <2>1, <2>3, <2>4, <2>6, <2>7, <2>8, <2>9, <2>10, BotsMove
  <2>12. QED
    BY <2>1, <2>4, <2>11 DEF loopVars
<1>2. CASE \E b \in running : BotEnds(b)
  <2>1. PICK b \in running : BotEnds(b)
    BY <1>2
  <2>2. /\ running' = running \ {b} /\ pipeline' = pipeline
        /\ onDone' \cup onErr' = onDone \cup onErr \cup {b}
        /\ \/ onDone' = onDone \cup {b} /\ onErr' = onErr
           \/ onErr' = onErr \cup {b} /\ onDone' = onDone
        /\ UNCHANGED <<job, runVars, loopVars, group, curNum, done, row>>
    BY <2>1 DEF BotEnds
  <2>3. Queued' = Queued
    BY <2>2 DEF Queued
  <2>4. AtWork' = AtWork
    BY <2>2, <2>3 DEF AtWork
  <2>5. b \notin Queued /\ b \notin onDone /\ b \notin onErr /\ b \in Nat
    BY DEF OnePlace, TypeOK
  <2>6. Queued' \cap (running' \cup onDone' \cup onErr') = {}
    BY <2>2, <2>3, <2>5 DEF OnePlace
  <2>7. running' \cap (onDone' \cup onErr') = {} /\ onDone' \cap onErr' = {}
    BY <2>2, <2>5 DEF OnePlace
  <2>8. /\ running' \in SUBSET Nat /\ onDone' \in SUBSET Nat /\ onErr' \in SUBSET Nat
        /\ pipeline' \in Seq(Nat) /\ Len(pipeline') <= Len(pipeline)
        /\ \A j, k \in DOMAIN pipeline' : pipeline'[j] = pipeline'[k] => j = k
    <3>1. pipeline \in Seq(Nat) /\ Len(pipeline) \in Nat
      BY DEF TypeOK
    <3>2. running' \in SUBSET Nat /\ onDone' \in SUBSET Nat /\ onErr' \in SUBSET Nat
      BY <2>2, <2>5 DEF TypeOK
    <3>3. QED  BY <2>2, <3>1, <3>2 DEF OnePlace
  <2>9. IInv'
    BY <2>2, <2>4, <2>6, <2>7, <2>8, BotsMove
  <2>10. QED
    BY <2>2, <2>4, <2>9 DEF loopVars
<1>3. QED
  BY <1>1, <1>2

(* A bot at work reports, and is then not at work any more. *)
LEMMA BotReports ==
  ASSUME IInv, NEW b, (b \in onDone /\ LoopBotDone(b)) \/ (b \in onErr /\ LoopBotErr(b))
  PROVE  /\ b \in AtWork /\ AtWork' = AtWork \ {b} /\ reported' = reported \cup {b}
         /\ IInv'
<1> USE DEF IInv
<1>0. job' = job /\ job.cur \in Nat /\ job.total \in Int /\ job.size \in Nat \ {0}
  BY JobsAssumption DEF TypeOK, LoopBotDone, LoopBotErr
<1>1. /\ loopPc = "select" /\ loopPc' = "slot" /\ b \in onDone \cup onErr
      /\ onDone' = onDone \ {b} /\ onErr' = onErr \ {b} /\ reported' = reported \cup {b}
      /\ pipeline' = pipeline /\ running' = running
      /\ runPc' = runPc /\ left' = left /\ cursor' = cursor /\ slots' = slots /\ wg' = wg
      /\ curNum' = curNum /\ done' = done /\ row' = row
      /\ exitOpen' = exitOpen /\ batchDone' = batchDone
  BY DEF LoopBotDone, LoopBotErr, LoopGoes, runVars, group, OnePlace
<1>2. errors' \in Nat
  BY DEF LoopBotDone, LoopBotErr, TypeOK
<1>3. Queued' = Queued
  BY <1>1 DEF Queued
<1>4. b \in AtWork /\ b \notin Queued /\ b \notin running /\ b \in Nat /\ b \notin reported
  BY <1>1 DEF AtWork, OnePlace, TypeOK
<1>5. AtWork' = AtWork \ {b}
  BY <1>1, <1>3, <1>4 DEF AtWork
<1>6. /\ IsFiniteSet(AtWork) /\ IsFiniteSet(reported)
      /\ Cardinality(AtWork) \in Nat /\ Cardinality(reported) \in Nat
      /\ Cardinality(AtWork) + Cardinality(reported) = Created
  BY AllCounted
<1>7. /\ Cardinality(AtWork') = Cardinality(AtWork) - 1
      /\ Cardinality(reported') = Cardinality(reported) + 1
  BY <1>1, <1>4, <1>5, <1>6, FS_RemoveElement, FS_AddElement
<1>8. Created' = Created
  BY <1>1 DEF Created
<1>9. OnePlace'
  <2>1. AtWork' \cup reported' = 1..Created' /\ AtWork' \cap reported' = {}
    BY <1>1, <1>4, <1>5, <1>8 DEF OnePlace
  <2>2. \A j, k \in DOMAIN pipeline' : pipeline'[j] = pipeline'[k] => j = k
    BY <1>1 DEF OnePlace
  <2>3. QED
    BY <1>1, <1>3, <1>8, <2>1, <2>2 DEF OnePlace
<1>10. TypeOK'
  <2>1. reported' \in SUBSET Nat /\ onDone' \in SUBSET Nat /\ onErr' \in SUBSET Nat
    BY <1>1, <1>4 DEF TypeOK
  <2>2. loopPc' \in LoopPcs
    BY <1>1 DEF LoopPcs
  <2>3. QED
    BY <1>0, <1>1, <1>2, <2>1, <2>2 DEF TypeOK
<1>11. Counts'
  BY <1>0, <1>1, <1>6, <1>7 DEF Counts, Flag, TypeOK
<1>12. Waves' /\ Ending'
  BY <1>0, <1>1, <1>4, <1>8 DEF Waves, Ending, Quiet, Creating
<1>13. LaunchBound' /\ RowBehind'
  BY <1>0, <1>1, <1>6, <1>7 DEF LaunchBound, RowBehind, Deleted, TypeOK
<1>14. QED
  BY <1>1, <1>4, <1>5, <1>9, <1>10, <1>11, <1>12, <1>13

(* pop, and the end of loop, move no bot. *)
LEMMA LoopMovesNoBot ==
  ASSUME IInv, LoopPopSlot \/ LoopPopWg \/ LoopPopCount \/ LoopDone \/ LoopExit
  PROVE  IInv' /\ AtWork' = AtWork /\ reported' = reported
<1> USE DEF IInv
<1>0. job' = job /\ job.cur \in Nat /\ job.total \in Int /\ job.size \in Nat \ {0}
  BY JobsAssumption DEF TypeOK, LoopPopSlot, LoopPopWg, LoopPopCount, LoopDone, LoopExit
<1>1. /\ AtWork' = AtWork /\ reported' = reported /\ Queued' = Queued
      /\ pipeline' = pipeline /\ running' = running /\ onDone' = onDone /\ onErr' = onErr
      /\ runPc' = runPc /\ left' = left /\ cursor' = cursor /\ errors' = errors
      /\ exitOpen' = exitOpen /\ row' = row
  BY DEF LoopPopSlot, LoopPopWg, LoopPopCount, LoopDone, LoopExit, AtWork, Queued, bots,
     runVars
<1>2. /\ Cardinality(AtWork) \in Nat /\ Cardinality(reported) \in Nat
      /\ Cardinality(AtWork) + Cardinality(reported) = Created
      /\ Cardinality(AtWork) = 0 <=> AtWork = {}
  BY AllCounted
<1>3. Created' = Created /\ OnePlace'
  BY <1>1 DEF Created, OnePlace
<1> USE <1>0, <1>1, <1>2, <1>3
<1>4. CASE LoopPopSlot
  <2>1. /\ loopPc = "slot" /\ loopPc' = "wg" /\ slots > 0 /\ slots' = slots - 1
        /\ wg' = wg /\ curNum' = curNum /\ done' = done /\ batchDone' = batchDone
    BY <1>4 DEF LoopPopSlot, LoopGoes
  <2>2. TypeOK'
    BY <2>1 DEF TypeOK, LoopPcs
  <2>3. Counts'
    BY <2>1 DEF Counts, Flag, TypeOK
  <2>4. Waves' /\ Ending' /\ LaunchBound' /\ RowBehind'
    BY <2>1 DEF Waves, Quiet, Creating, Ending, LaunchBound, RowBehind
  <2>5. QED  BY <2>2, <2>3, <2>4
<1>5. CASE LoopPopWg
  <2>1. /\ loopPc = "wg" /\ loopPc' = "count" /\ wg' = wg - 1
        /\ slots' = slots /\ curNum' = curNum /\ done' = done /\ batchDone' = batchDone
    BY <1>5 DEF LoopPopWg, LoopGoes
  <2>2. wg >= 1
    BY <2>1 DEF Counts, Flag
  <2>3. TypeOK'
    BY <2>1, <2>2 DEF TypeOK, LoopPcs
  <2>4. Counts'
    BY <2>1 DEF Counts, Flag, TypeOK
  <2>5. Waves' /\ Ending' /\ LaunchBound' /\ RowBehind'
    BY <2>1 DEF Waves, Quiet, Creating, Ending, LaunchBound, RowBehind
  <2>6. QED  BY <2>3, <2>4, <2>5
<1>6. CASE LoopPopCount
  <2>1. /\ loopPc = "count" /\ loopPc' = "select" /\ curNum' = curNum + 1
        /\ slots' = slots /\ wg' = wg /\ done' = done /\ batchDone' = batchDone
    BY <1>6 DEF LoopPopCount, LoopGoes, group
  <2>2. TypeOK'
    BY <2>1 DEF TypeOK, LoopPcs
  <2>3. Counts'
    BY <2>1 DEF Counts, Flag, TypeOK
  <2>4. Waves' /\ LaunchBound' /\ RowBehind'
    BY <2>1 DEF Waves, Quiet, Creating, LaunchBound, RowBehind
  <2>5. Ending'
    BY <2>1 DEF Ending, Creating, TypeOK
  <2>6. QED  BY <2>2, <2>3, <2>4, <2>5
<1>7. CASE LoopDone
  <2>1. /\ loopPc = "select" /\ loopPc' = "exit" /\ done = 1 /\ done' = done - 1
        /\ slots' = slots /\ wg' = wg /\ curNum' = curNum /\ batchDone' = batchDone
    BY <1>7 DEF LoopDone, LoopGoes, group, TypeOK
  <2>2. TypeOK'
    BY <2>1 DEF TypeOK, LoopPcs
  <2>3. Counts'
    BY <2>1 DEF Counts, Flag
  <2>4. Waves' /\ Ending' /\ LaunchBound' /\ RowBehind'
    BY <2>1 DEF Waves, Quiet, Creating, Ending, LaunchBound, RowBehind
  <2>5. QED  BY <2>2, <2>3, <2>4
<1>8. CASE LoopExit
  <2>1. /\ loopPc = "exit" /\ loopPc' = "exited" /\ batchDone' = TRUE
        /\ slots' = slots /\ wg' = wg /\ curNum' = curNum /\ done' = done
    BY <1>8 DEF LoopExit, LoopGoes, group
  <2>2. TypeOK'
    BY <2>1 DEF TypeOK, LoopPcs
  <2>3. Counts'
    BY <2>1 DEF Counts, Flag
  <2>4. Waves' /\ Ending' /\ LaunchBound' /\ RowBehind'
    BY <2>1 DEF Waves, Quiet, Creating, Ending, LaunchBound, RowBehind
  <2>5. QED  BY <2>2, <2>3, <2>4
<1>9. QED
  BY <1>4, <1>5, <1>6, <1>7, <1>8

(* Every step of run, loop and bots preserves the invariant. *)
LEMMA StepInductive == IInv /\ [Next]_vars => IInv'
<1> SUFFICES ASSUME IInv, [Next]_vars PROVE IInv'
  OBVIOUS
<1>1. CASE Run
  BY <1>1, RunMovesNoBot, RunCreatesABot DEF Run
<1>2. CASE Loop
  BY <1>2, BotMoves, BotReports, LoopMovesNoBot DEF Loop
<1>3. CASE \E b \in running : BotEnds(b)
  BY <1>3, BotMoves
<1>4. CASE UNCHANGED vars
  BY <1>4 DEF vars, runVars, loopVars, bots, group, IInv, TypeOK, OnePlace, Counts, Waves,
     Ending, LaunchBound, RowBehind, Created, AtWork, Queued, Quiet, Creating
<1>5. QED
  BY <1>1, <1>2, <1>3, <1>4 DEF Next

-----------------------------------------------------------------------------
(* Every state of the program satisfies IInv: the waves, the two channels for results and *)
(* the three counters of batch.go agree however the goroutines are scheduled.             *)
THEOREM Inductive == Spec => []IInv
<1>1. QED
  BY InitInductive, StepInductive, PTL DEF Spec

(* The counters of a batch stay in range; in particular its wait group, which would panic *)
(* below zero, never gets there, and the channels never hold more than their capacity.   *)
THEOREM TypeCorrect == Spec => []TypeOK
<1>1. IInv => TypeOK
  BY DEF IInv
<1>2. QED
  BY <1>1, Inductive, PTL

(* For every batch size: SizeWaitGroup lets no more than size bots be at work.            *)
THEOREM ConcurrencyBounded == Spec => []Concurrency
<1>1. ASSUME IInv PROVE Concurrency
  <2>1. Cardinality(AtWork) \in Nat
    BY <1>1, AllCounted DEF IInv
  <2>2. slots \in Int /\ slots <= job.size /\ job.size \in Int
    BY <1>1, JobsAssumption DEF IInv, TypeOK
  <2>3. QED
    BY <1>1, <2>1, <2>2 DEF IInv, Counts, Flag, Concurrency
<1>2. QED
  BY <1>1, Inductive, PTL

(* For every job: at most one bot more than asked is created, although run reads CurNum    *)
(* while loop may still have to count the last bot of the wave.                            *)
THEOREM LaunchBounded == Spec => []LaunchBound
<1>1. IInv => LaunchBound
  BY DEF IInv
<1>2. QED
  BY <1>1, Inductive, PTL

(* For every job: the progress in the task table is backed by reports.                    *)
THEOREM RowIsBehind == Spec => []RowBehind
<1>1. IInv => RowBehind
  BY DEF IInv
<1>2. QED
  BY <1>1, Inductive, PTL

(* No bot is at work once loop is on its way out, and enough have reported. *)
LEMMA EndIsComplete ==
  ASSUME IInv, loopPc \in {"exit", "exited"}
  PROVE  /\ AtWork = {} /\ reported = 1..cursor
         /\ Cardinality(reported) = cursor /\ cursor >= job.total - job.cur
<1>1. AtWork = {} /\ curNum >= job.total /\ ~Creating
  BY DEF IInv, Ending
<1>2. Created = cursor
  BY <1>1 DEF Creating, Created
<1>3. reported = 1..cursor
  BY <1>1, <1>2 DEF IInv, OnePlace
<1>4. /\ Cardinality(AtWork) = 0 /\ Cardinality(reported) \in Nat
      /\ Cardinality(AtWork) + Cardinality(reported) = Created
  BY <1>1, AllCounted DEF IInv
<1>5. Cardinality(reported) = cursor
  BY <1>2, <1>4 DEF IInv, TypeOK
<1>6. curNum = job.cur + Cardinality(reported)
  <2>1. job.cur \in Nat
    BY JobsAssumption DEF IInv, TypeOK
  <2>2. loopPc \notin {"slot", "wg", "count"}
    OBVIOUS
  <2>3. QED  BY <1>4, <2>1, <2>2 DEF IInv, Counts, Flag
<1>7. cursor >= job.total - job.cur
  BY <1>1, <1>5, <1>6, JobsAssumption DEF IInv, TypeOK
<1>8. QED
  BY <1>1, <1>3, <1>5, <1>7

(* For every job: when BatchDone is sent, no bot of the batch is left anywhere, every bot  *)
(* created has reported, and they are as many as were asked for.                          *)
THEOREM DoneIsComplete == Spec => []DoneComplete
<1>1. ASSUME IInv PROVE DoneComplete
  <2>1. SUFFICES ASSUME batchDone
                 PROVE  AtWork = {} /\ reported = 1..cursor /\ cursor >= job.total - job.cur
    BY DEF DoneComplete
  <2>2. loopPc = "exited"
    BY <1>1, <2>1 DEF IInv, Ending
  <2>3. QED
    BY <1>1, <2>2, EndIsComplete
<1>2. QED
  BY <1>1, Inductive, PTL

(* BatchJob counts bots the way Batch does. *)
LEMMA SameCardinality == \A S : Job!Cardinality(S) = Cardinality(S)
  BY DEF Cardinality, Job!Cardinality

(* Every batch keeps the promises of BatchJob: of the goroutines' steps, creating a bot is *)
(* Start, taking in its report is Report, and sending BatchDone is Close.                  *)
THEOREM BatchImplementsJob == Spec => ImplementsJob
<1>1. Init => Job!Init
  <2>1. SUFFICES ASSUME Init PROVE Job!Init
    OBVIOUS
  <2>2. AtWork = {}
    BY <2>1 DEF Init, AtWork, Queued
  <2>3. job.total - job.cur \in Int /\ job.size \in Nat
    BY <2>1, JobsAssumption DEF Init
  <2>4. reported = {} /\ batchDone = FALSE
    BY <2>1 DEF Init
  <2>5. QED
    BY <2>2, <2>3, <2>4 DEF Job!Init
<1>2. ASSUME IInv, [Next]_vars PROVE [Job!Next]_(Job!vars)
  <2>1. CASE RunEnqueue
    <3>1. /\ AtWork' = AtWork \cup {cursor} /\ cursor \notin AtWork \cup reported
      BY <1>2, <2>1, RunCreatesABot
    <3>2. runPc = "enqueue" /\ job' = job /\ reported' = reported /\ batchDone' = batchDone
      BY <2>1 DEF RunEnqueue, loopVars
    <3>3. ~batchDone
      BY <1>2, <3>2 DEF IInv, Ending, Creating
    <3>4. Cardinality(AtWork) \in Nat /\ slots \in Int /\ slots <= job.size /\ job.size \in Int
      BY <1>2, AllCounted, JobsAssumption DEF IInv, TypeOK
    <3>5. Cardinality(AtWork) < job.size
      BY <1>2, <3>2, <3>4 DEF IInv, Counts, Flag
    <3>6. Job!Start
      BY <3>1, <3>2, <3>3, <3>5, SameCardinality DEF Job!Start
    <3>7. QED  BY <3>6 DEF Job!Next
  <2>2. ASSUME NEW b, (b \in onDone /\ LoopBotDone(b)) \/ (b \in onErr /\ LoopBotErr(b))
        PROVE  Job!Report
    <3>1. b \in AtWork /\ AtWork' = AtWork \ {b} /\ reported' = reported \cup {b}
      BY <1>2, <2>2, BotReports
    <3>2. loopPc = "select" /\ job' = job /\ batchDone' = batchDone
      BY <2>2 DEF LoopBotDone, LoopBotErr, LoopGoes
    <3>3. ~batchDone
      BY <1>2, <3>2 DEF IInv, Ending
    <3>4. QED  BY <3>1, <3>2, <3>3 DEF Job!Report
  <2>3. CASE LoopExit
    <3>1. /\ loopPc = "exit" /\ batchDone' = TRUE /\ job' = job
          /\ AtWork' = AtWork /\ reported' = reported
      BY <1>2, <2>3, LoopMovesNoBot DEF LoopExit, LoopGoes
    <3>2. ~batchDone
      BY <1>2, <3>1 DEF IInv, Ending
    <3>3. AtWork = {} /\ Cardinality(reported) >= job.total - job.cur
      BY <1>2, <3>1, EndIsComplete
    <3>4. Job!Close
      BY <3>1, <3>2, <3>3, SameCardinality DEF Job!Close
    <3>5. QED  BY <3>4 DEF Job!Next
  <2>4. CASE RunWave \/ RunAddSlot \/ RunAddWg \/ RunWait \/ RunUpdate \/ RunCheck
             \/ RunDone \/ RunSleep
    <3>1. UNCHANGED <<job, reported, batchDone>> /\ AtWork' = AtWork
      BY <2>4 DEF RunWave, RunAddSlot, RunAddWg, RunWait, RunUpdate, RunCheck, RunDone,
         RunSleep, loopVars, bots, AtWork, Queued
    <3>2. QED  BY <3>1 DEF Job!vars
  <2>5. CASE LoopPopSlot \/ LoopPopWg \/ LoopPopCount \/ LoopDone
    <3>1. AtWork' = AtWork /\ UNCHANGED <<job, reported, batchDone>>
      BY <1>2, <2>5, LoopMovesNoBot DEF LoopPopSlot, LoopPopWg, LoopPopCount, LoopDone
    <3>2. QED  BY <3>1 DEF Job!vars
  <2>6. CASE LoopStart \/ (\E b \in running : BotEnds(b))
    <3>1. AtWork' = AtWork /\ UNCHANGED <<job, reported, batchDone>>
      BY <1>2, <2>6, BotMoves DEF LoopStart, BotEnds, loopVars
    <3>2. QED  BY <3>1 DEF Job!vars
  <2>7. CASE UNCHANGED vars
    <3>1. AtWork' = AtWork /\ UNCHANGED <<job, reported, batchDone>>
      BY <2>7 DEF vars, loopVars, bots, AtWork, Queued
    <3>2. QED  BY <3>1 DEF Job!vars
  <2>8. QED
    BY <1>2, <2>1, <2>2, <2>3, <2>4, <2>5, <2>6, <2>7 DEF Next, Run, Loop, Job!Next
<1>3. QED
  BY <1>1, <1>2, Inductive, PTL DEF Spec, Job!Spec, ImplementsJob
=============================================================================
