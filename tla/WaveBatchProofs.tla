---------------------------- MODULE WaveBatchProofs ----------------------------
(***************************************************************************)
(* Proofs about WaveBatch and the file mutation queue below it, for every  *)
(* number of calls, every batch and every set of names and links.          *)
(***************************************************************************)
EXTENDS WaveBatch, TLAPS

Stages == {"out", "registering", "resolved", "queued", "reading", "writing", "running", "settled"}

QueueTypes ==
  /\ stage \in [Ops -> Stages] /\ path \in [Ops -> Names] /\ key \in [Ops -> Names]
  /\ waits \in [Ops -> Ops \cup {NoOp}] /\ registrations \in Seq(Ops)
  /\ tail \in [Names -> Ops \cup {NoOp}]

BatchTypes ==
  /\ waveOf \in [Calls -> Nat] /\ placed \in 0..N /\ wave \in Nat /\ aborted \in BOOLEAN
  /\ phase \in {"partition", "prepare", "run", "ended"}
  /\ entry \in [Calls -> {"none", "prepared", "immediate", "started"}]
  /\ results \in Seq(Calls)

(* A mutation that holds a place in the chain of its key. *)
Active(i) == stage[i] \in {"queued", "reading", "writing"}
Registering(i) == stage[i] \in {"registering", "resolved"}
Beside(i, j) == Active(i) /\ Active(j) /\ key[i] = key[j]

(***************************************************************************)
(* The chains of fileMutationQueues: r ranks the mutations of a key by     *)
(* when they were registered.  Each waits for the one just before it, the  *)
(* map holds the last, and the one inside is the first.                    *)
(***************************************************************************)
Ranked(r) ==
  /\ \A i, j \in Ops : Beside(i, j) /\ r[i] = r[j] => i = j
  /\ \A i, j \in Ops : Beside(i, j) /\ r[i] < r[j] =>
       \E m \in Ops : waits[j] = m /\ Beside(m, j) /\ r[i] <= r[m] /\ r[m] < r[j]
  /\ \A i, j \in Ops : Beside(i, j) /\ Inside(j) => r[j] <= r[i]
TailsLast(r) ==
  /\ \A i \in Ops : Active(i) => \E t \in Ops : tail[key[i]] = t /\ Beside(t, i) /\ r[i] <= r[t]
  /\ \A k \in Names, t \in Ops : tail[k] = t => Active(t) /\ key[t] = k
WavesRanked(r) == \A i, j \in Ops : Beside(i, j) /\ waveOf[i] < waveOf[j] => r[i] < r[j]
LineInv(r) == Ranked(r) /\ TailsLast(r) /\ WavesRanked(r)
InLine == \E r \in [Ops -> Nat] : LineInv(r)

(* The registration queue holds the calls that are not registered yet, in  *)
(* the order of their waves, and registers them one by one.                *)
RegistrationInv ==
  /\ \A i \in Ops : Registering(i) <=> \E k \in 1..Len(registrations) : registrations[k] = i
  /\ \A k, m \in 1..Len(registrations) : registrations[k] = registrations[m] => k = m
  /\ \A i \in Ops : stage[i] = "resolved" => Len(registrations) > 0 /\ registrations[1] = i
  /\ \A k, m \in 1..Len(registrations) : k < m => waveOf[registrations[k]] <= waveOf[registrations[m]]
  /\ \A i, j \in Ops : Registering(i) /\ Active(j) => waveOf[j] <= waveOf[i]

(* What is in the queue was started by a wave that has run, and is queued  *)
(* under its file unless that was missing.                                 *)
StartedInv ==
  /\ \A i \in Ops : entry[i] # "started" => stage[i] = "out"
  /\ \A i \in Ops : stage[i] = "running" => ~Mutates(i)
  /\ \A i \in Ops : entry[i] # "none" => waveOf[i] <= wave /\ phase # "partition"
  /\ \A i \in Ops : (stage[i] = "resolved" \/ Active(i)) /\ i \notin unresolved => key[i] = file(i)

(* The partition is made of contiguous waves, none empty. *)
PartitionInv ==
  /\ \A i \in Calls : i <= placed <=> waveOf[i] # 0
  /\ \A i, j \in 1..placed : i <= j => waveOf[i] <= waveOf[j]
  /\ \A w \in 1..lastWave : \E i \in 1..placed : waveOf[i] = w
  /\ phase = "partition" <=> placed < N
  /\ phase = "partition" => wave = 1 /\ results = <<>>

(* Calls are prepared in order, and their results are published in order. *)
ProgressInv ==
  /\ Len(results) <= N /\ \A k \in 1..Len(results) : results[k] = k
  /\ \A i, j \in Calls : i < j /\ entry[j] # "none" => entry[i] # "none"
  /\ phase \in {"prepare", "run"} =>
       /\ wave \in 1..lastWave
       /\ \A i \in Calls : waveOf[i] < wave => entry[i] # "none" /\ i <= Len(results)
       /\ \A i \in Calls : i <= Len(results) => waveOf[i] <= wave /\ entry[i] # "none"
  /\ phase = "prepare" => unprepared # {} /\ \A i \in Calls : i <= Len(results) => waveOf[i] < wave
  /\ phase = "run" => (aborted \/ unprepared = {}) /\ \E i \in current : entry[i] # "none"
  /\ phase = "ended" => Len(results) > 0 /\ (aborted \/ Len(results) = N)

(* The tool's own return, of a tool outside the queue. *)
Returns(i) ==
  /\ stage[i] = "running" /\ become(i, "settled")
  /\ UNCHANGED <<path, key, waits, registrations, tail, existing, unresolved>>

WaveTypes == QueueTypes /\ BatchTypes

(***************************************************************************)
(* The executor.                                                           *)
(***************************************************************************)
(* The executor and the queue keep their types. *)
LEMMA WaveTypesNext == WaveTypes /\ PartitionInv /\ RegistrationInv /\ [Next]_vars => WaveTypes'
<1> SUFFICES ASSUME WaveTypes, PartitionInv, RegistrationInv, [Next]_vars PROVE WaveTypes'
  OBVIOUS
<1> USE WaveBatchAssumption, FileMutationQueueAssumption
    DEF WaveTypes, QueueTypes, BatchTypes, Stages, become, leave, enter, queueVars
<1>1. CASE Partition
  <2>1. placed' \in 1..N  BY <1>1 DEF Partition, PartitionInv
  <2>2. waveOf' \in [Calls -> Nat]
    <3>1. lastWave \in Nat  BY DEF lastWave, Calls
    <3> DEFINE v == IF startsWave(placed') THEN lastWave + 1 ELSE lastWave
    <3>2. v \in Nat  BY <3>1
    <3>3. waveOf' = [waveOf EXCEPT ![placed'] = v]  BY <1>1 DEF Partition
    <3> HIDE DEF v
    <3> QED  BY <3>2, <3>3
  <2> QED  BY <1>1, <2>1, <2>2 DEF Partition
<1>2. CASE WaveEnd
  BY <1>2 DEF WaveEnd
<1>3. ASSUME NEW i \in Calls, Prepare(i) PROVE WaveTypes'
  <2>1. path' \in [Ops -> Names]  BY <1>3 DEF Prepare, unprepared, current
  <2>2. entry' \in [Calls -> {"none", "prepared", "immediate", "started"}]  BY <1>3 DEF Prepare
  <2> QED  BY <1>3, <2>1, <2>2 DEF Prepare, afterPreparation
<1>4. ASSUME NEW i \in Calls, Start(i) PROVE WaveTypes'
  <2>1. entry' \in [Calls -> {"none", "prepared", "immediate", "started"}]  BY <1>4 DEF Start
  <2>2. BatchTypes'  BY <1>4, <2>1 DEF Start
  <2>3. CASE UNCHANGED queueVars  BY <2>2, <2>3
  <2>4. CASE Enter(i)  BY <2>2, <2>4, SMTT(30) DEF Enter
  <2>5. CASE become(i, "running") /\ UNCHANGED <<path, key, waits, registrations, tail, existing, unresolved>>
    BY <2>2, <2>5
  <2> QED  BY <1>4, <2>3, <2>4, <2>5 DEF Start
<1>5. ASSUME NEW i \in Calls, Publish(i) PROVE WaveTypes'
  BY <1>5 DEF Publish
<1>6. CASE Abort
  BY <1>6 DEF Abort
<1>7. ASSUME NEW i \in Calls, Timeout(i) PROVE WaveTypes'
  BY <1>7 DEF Timeout
<1>8. ASSUME NEW i \in Calls, Work(i), ResolveKey(i) PROVE WaveTypes'
  BY <1>8 DEF ResolveKey, Work, file
<1>9. ASSUME NEW i \in Calls, Work(i), ResolveKeyFails(i) PROVE WaveTypes'
  <2>1. Len(registrations) > 0  BY <1>9 DEF ResolveKeyFails, RegistrationInv, Registering
  <2>2. registrations' \in Seq(Ops)  BY <1>9, <2>1 DEF ResolveKeyFails
  <2> QED  BY <1>9, <2>2 DEF ResolveKeyFails, Work
<1>10. ASSUME NEW i \in Calls, Work(i), Register(i) PROVE WaveTypes'
  <2>1. Len(registrations) > 0  BY <1>10 DEF Register, RegistrationInv
  <2>2. registrations' \in Seq(Ops)  BY <1>10, <2>1 DEF Register
  <2> QED  BY <1>10, <2>2 DEF Register, Work
<1>11. ASSUME NEW i \in Calls, Work(i), Begin(i, cancelled(i)) PROVE WaveTypes'
  BY <1>11 DEF Begin, Work
<1>12. ASSUME NEW i \in Calls, Work(i), StartWrite(i, calls[i].tool, cancelled(i)) PROVE WaveTypes'
  BY <1>12, ZenonT(60) DEF StartWrite, Work
<1>13. ASSUME NEW i \in Calls, Work(i), EndWrite(i) PROVE WaveTypes'
  BY <1>13 DEF EndWrite, Work
<1>14. ASSUME NEW i \in Calls, Work(i), Returns(i) PROVE WaveTypes'
  BY <1>14 DEF Returns, Work
<1>15. CASE UNCHANGED vars
  BY <1>15 DEF vars, batchVars
<1> QED
  BY <1>1, <1>2, <1>3, <1>4, <1>5, <1>6, <1>7, <1>8, <1>9, <1>10, <1>11, <1>12, <1>13, <1>14, <1>15
     DEF Next, Executor, Work, Returns

(* The partition grows at its end, and is then left alone. *)
LEMMA PartitionNext == WaveTypes /\ PartitionInv /\ [Next]_vars => PartitionInv'
<1> SUFFICES ASSUME WaveTypes, PartitionInv, [Next]_vars PROVE PartitionInv'
  OBVIOUS
<1> USE WaveBatchAssumption DEF WaveTypes, BatchTypes, PartitionInv, lastWave, Calls
<1>1. CASE Partition
  <2>1. /\ placed' = placed + 1 /\ placed' \in Calls /\ UNCHANGED <<wave, results>> /\ placed < N
        /\ phase = "partition" /\ phase' = IF placed' = N THEN "prepare" ELSE "partition"
    BY <1>1 DEF Partition
  <2> DEFINE last == IF placed = 0 THEN 0 ELSE waveOf[placed]
  <2>2. PICK w \in {last, last + 1} :
          waveOf' = [waveOf EXCEPT ![placed + 1] = w] /\ (placed = 0 => w = last + 1)
    BY <1>1 DEF Partition, startsWave
  <2>3. last \in Nat /\ (placed # 0 => last # 0) /\ \A i \in 1..placed : waveOf[i] <= last
    OBVIOUS
  <2>4. \A v \in 1..last : \E i \in 1..placed : waveOf[i] = v
    OBVIOUS
  <2> HIDE DEF last
  <2>5. \A i \in Calls : i <= placed' <=> waveOf'[i] # 0
    BY <2>1, <2>2, <2>3
  <2>6. \A i, j \in 1..placed' : i <= j => waveOf'[i] <= waveOf'[j]
    BY <2>1, <2>2, <2>3
  <2>7. waveOf'[placed'] = w /\ placed' # 0  BY <2>1, <2>2
  <2>8. ASSUME NEW v \in 1..w PROVE \E i \in 1..placed' : waveOf'[i] = v
    <3>1. CASE v = w  BY <2>1, <2>7, <3>1
    <3>2. CASE v # w
      <4>1. v \in 1..last  BY <2>2, <2>3, <3>2
      <4>2. PICK i \in 1..placed : waveOf[i] = v  BY <2>4, <4>1
      <4>3. i \in 1..placed' /\ waveOf'[i] = v  BY <2>1, <2>2, <4>2
      <4> QED  BY <4>3
    <3> QED  BY <3>1, <3>2
  <2> QED  BY <2>1, <2>5, <2>6, <2>7, <2>8
<1>2. CASE WaveEnd
  BY <1>2 DEF WaveEnd
<1>3. ASSUME NEW i \in Calls, Prepare(i) PROVE PartitionInv'
  BY <1>3 DEF Prepare, afterPreparation
<1>4. ASSUME NEW i \in Calls, Start(i) PROVE PartitionInv'
  BY <1>4 DEF Start
<1>5. ASSUME NEW i \in Calls, Publish(i) PROVE PartitionInv'
  BY <1>5 DEF Publish
<1>6. CASE Abort
  BY <1>6 DEF Abort
<1>7. ASSUME NEW i \in Calls, Timeout(i) PROVE PartitionInv'
  BY <1>7 DEF Timeout
<1>8. ASSUME NEW i \in Calls, Work(i) PROVE PartitionInv'
  BY <1>8 DEF Work
<1>9. CASE UNCHANGED vars
  BY <1>9 DEF vars, batchVars
<1> QED
  BY <1>1, <1>2, <1>3, <1>4, <1>5, <1>6, <1>7, <1>8, <1>9
     DEF Next, Executor

(* A wave is prepared from its first call on, its results are published     *)
(* from the first on, and the next wave comes only after all of them.       *)
LEMMA ProgressNext == WaveTypes /\ PartitionInv /\ RegistrationInv /\ StartedInv /\ ProgressInv /\ [Next]_vars => ProgressInv'
<1> SUFFICES ASSUME WaveTypes, PartitionInv, RegistrationInv, StartedInv, ProgressInv, [Next]_vars PROVE ProgressInv'
  OBVIOUS
<1> USE WaveBatchAssumption DEF WaveTypes, BatchTypes, ProgressInv, Calls
<1>1. CASE Partition
  <2>1. /\ placed' = placed + 1 /\ UNCHANGED <<wave, results, entry, aborted>>
        /\ phase = "partition" /\ phase' = IF placed' = N THEN "prepare" ELSE "partition"
    BY <1>1 DEF Partition
  <2>2. wave = 1 /\ results = <<>> /\ \A i \in Calls : entry[i] = "none"
    BY <2>1 DEF PartitionInv, StartedInv
  <2>3. Len(results') = 0  BY <2>1, <2>2
  <2>4. PartitionInv'  BY PartitionNext
  <2>5. ASSUME phase' = "prepare" PROVE wave' \in 1..lastWave' /\ unprepared' # {}
    <3>1. placed' = N  BY <2>1, <2>5
    <3>2. lastWave' \in Nat /\ lastWave' # 0  
      <4>1. waveOf'[N] # 0  BY <2>4, <3>1 DEF PartitionInv
      <4>2. waveOf' \in [Calls -> Nat]  BY WaveTypesNext
      <4> QED  BY <3>1, <4>1, <4>2 DEF lastWave
    <3>3. PICK i \in 1..N : waveOf'[i] = 1  BY <2>4, <3>1, <3>2 DEF PartitionInv
    <3>4. i \in unprepared'  BY <2>1, <2>2, <3>3 DEF unprepared, current
    <3> QED  BY <2>1, <2>2, <3>2, <3>4
  <2>6. \A i \in Calls : ~(waveOf'[i] < wave') \/ phase' # "prepare"
    <3> SUFFICES ASSUME NEW i \in Calls, phase' = "prepare" PROVE ~(waveOf'[i] < wave')
      OBVIOUS
    <3>1. waveOf'[i] # 0 /\ waveOf'[i] \in Nat
      BY <2>1, <2>4, WaveTypesNext DEF PartitionInv
    <3> QED  BY <2>1, <2>2, <3>1
  <2>7. phase' \in {"partition", "prepare"}  BY <2>1
  <2> QED  BY <2>1, <2>2, <2>3, <2>5, <2>6, <2>7
<1>2. CASE WaveEnd
  <2>1. /\ phase = "run" /\ wave' = wave + 1 /\ unpublished = {}
        /\ phase' = IF aborted \/ wave = lastWave THEN "ended" ELSE "prepare"
        /\ UNCHANGED <<waveOf, placed, entry, results, aborted>>
    BY <1>2 DEF WaveEnd
  <2>2. ASSUME NEW i \in Calls, waveOf[i] <= wave, entry[i] # "none" PROVE i <= Len(results)
    <3>1. CASE waveOf[i] < wave  BY <2>1, <3>1
    <3>2. CASE waveOf[i] = wave
      <4>1. i \in current /\ i \notin unpublished  BY <2>1, <3>2 DEF current
      <4>2. PICK k \in DOMAIN results : results[k] = i  BY <2>2, <4>1 DEF unpublished
      <4>3. k \in 1..Len(results)  BY <4>2
      <4> QED  BY <4>2, <4>3
    <3> QED  BY <2>2, <3>1, <3>2
  <2>3. PICK i \in Calls : waveOf[i] = wave /\ entry[i] # "none"
    BY <2>1 DEF current
  <2>4. Len(results) > 0 /\ Len(results) \in Nat  BY <2>2, <2>3, SMTT(30)
  <2>5. placed = N  BY <2>1 DEF PartitionInv
  <2>6. lastWave = waveOf[N] /\ \A j \in Calls : waveOf[j] <= lastWave
    BY <2>5 DEF PartitionInv, lastWave
  <2>7. ASSUME ~aborted PROVE \A j \in Calls : waveOf[j] <= wave => entry[j] # "none" /\ j <= Len(results)
    <3> SUFFICES ASSUME NEW j \in Calls, waveOf[j] <= wave PROVE entry[j] # "none" /\ j <= Len(results)
      OBVIOUS
    <3>1. CASE waveOf[j] < wave  BY <2>1, <3>1
    <3>2. CASE waveOf[j] = wave
      <4>1. entry[j] # "none"  BY <2>1, <2>7, <3>2 DEF unprepared, current
      <4> QED  BY <2>2, <4>1
    <3> QED  BY <3>1, <3>2
  <2>8. CASE aborted \/ wave = lastWave
    <3>1. ~aborted => Len(results) = N  BY <2>6, <2>7, <2>8, <2>4
    <3> QED  BY <2>1, <2>4, <2>8, <3>1
  <2>9. CASE ~(aborted \/ wave = lastWave)
    <3>1. wave' \in 1..lastWave /\ lastWave' = lastWave  BY <2>1, <2>6, <2>9 DEF lastWave
    <3>2. PICK j \in 1..placed : waveOf[j] = wave'  BY <3>1 DEF PartitionInv
    <3>3. j \in Calls /\ entry[j] = "none"  BY <2>1, <2>5, <3>2 DEF StartedInv
    <3>4. j \in unprepared'  BY <2>1, <3>2, <3>3 DEF unprepared, current
    <3>5. \A m \in Calls : waveOf[m] < wave' => waveOf[m] <= wave  BY <2>1
    <3>6. \A m \in Calls : waveOf[m] < wave' => entry[m] # "none" /\ m <= Len(results)
      BY <2>7, <2>9, <3>5
    <3>7. \A m \in Calls : m <= Len(results) => waveOf[m] < wave' /\ waveOf[m] <= wave' /\ entry[m] # "none"
      BY <2>1, SMTT(30)
    <3>8. phase' = "prepare"  BY <2>1, <2>9
    <3>9. UNCHANGED <<waveOf, entry, results>>  BY <2>1
    <3>10. unprepared' # {}  BY <3>4
    <3> QED  BY <3>1, <3>6, <3>7, <3>8, <3>9, <3>10
  <2> QED  BY <2>8, <2>9
<1>3. ASSUME NEW i \in Calls, Prepare(i) PROVE ProgressInv'
  <2>1. /\ phase = "prepare" /\ i \in unprepared /\ \A j \in unprepared : i <= j
        /\ phase' = IF unprepared = {i} \/ aborted THEN "run" ELSE "prepare"
        /\ UNCHANGED <<waveOf, placed, wave, results, aborted>>
    BY <1>3 DEF Prepare, afterPreparation
  <2>2. PICK e \in {"immediate", "prepared"} : entry' = [entry EXCEPT ![i] = e]
    BY <1>3 DEF Prepare, enter
  <2>3. waveOf[i] = wave /\ entry[i] = "none"  BY <2>1 DEF unprepared, current
  <2>4. \A j \in Calls : j < i => entry[j] # "none"
    <3> SUFFICES ASSUME NEW j \in Calls, j < i PROVE entry[j] # "none"
      OBVIOUS
    <3>1. waveOf[j] <= wave
      <4>1. placed = N  BY <2>1 DEF PartitionInv
      <4> QED  BY <2>3, <4>1 DEF PartitionInv
    <3>2. CASE waveOf[j] < wave  BY <2>1, <3>2
    <3>3. CASE waveOf[j] = wave
      <4>1. j \notin unprepared  BY <2>1
      <4> QED  BY <3>3, <4>1 DEF unprepared, current
    <3> QED  BY <3>1, <3>2, <3>3
  <2>5. \A j, m \in Calls : j < m /\ entry'[m] # "none" => entry'[j] # "none"
    BY <2>2, <2>4
  <2>6. unprepared' = unprepared \ {i}  BY <2>1, <2>2 DEF unprepared, current
  <2>7. i \in current' /\ entry'[i] # "none"  BY <2>1, <2>2, <2>3 DEF current
  <2>8. lastWave' = lastWave  BY <2>1 DEF lastWave
  <2>9. \A j \in Calls : entry[j] # "none" => entry'[j] # "none"  BY <2>2
  <2>10. /\ wave' \in 1..lastWave'
         /\ \A j \in Calls : waveOf'[j] < wave' => entry'[j] # "none" /\ j <= Len(results')
         /\ \A j \in Calls : j <= Len(results') => waveOf'[j] <= wave' /\ entry'[j] # "none"
    BY <2>1, <2>8, <2>9
  <2>11. phase' = "prepare" => unprepared' # {}  BY <2>1, <2>6
  <2>12. phase' = "run" => aborted' \/ unprepared' = {}  BY <2>1, <2>6
  <2>13. \A j \in Calls : j <= Len(results') => waveOf'[j] < wave'  BY <2>1
  <2>14. phase' \in {"prepare", "run"}  BY <2>1
  <2>15. Len(results') <= N /\ \A k \in 1..Len(results') : results'[k] = k  BY <2>1
  <2> QED  BY <2>5, <2>7, <2>10, <2>11, <2>12, <2>13, <2>14, <2>15
<1>4. ASSUME NEW i \in Calls, Start(i) PROVE ProgressInv'
  <2>1. /\ UNCHANGED <<waveOf, placed, wave, phase, results, aborted>>
        /\ i \in current /\ entry[i] = "prepared" /\ entry' = [entry EXCEPT ![i] = "started"]
    BY <1>4 DEF Start, enter
  <2>2. \A j \in Calls : entry'[j] = "none" <=> entry[j] = "none"  BY <2>1
  <2>3. UNCHANGED <<unprepared, current, lastWave>>  BY <2>1, <2>2 DEF unprepared, current, lastWave
  <2> QED  BY <2>1, <2>2, <2>3
<1>5. ASSUME NEW i \in Calls, Publish(i) PROVE ProgressInv'
  <2>1. /\ phase = "run" /\ i \in unpublished /\ \A j \in unpublished : i <= j
        /\ results' = Append(results, i)
        /\ UNCHANGED <<waveOf, placed, wave, phase, entry, aborted>>
    BY <1>5 DEF Publish
  <2>2. UNCHANGED <<unprepared, current, lastWave>>  BY <2>1 DEF unprepared, current, lastWave
  <2> DEFINE n == Len(results)
  <2>3. n \in Nat /\ waveOf[i] = wave /\ entry[i] # "none" /\ \A k \in 1..n : results[k] # i
    BY <2>1, SMTT(30) DEF unpublished, current
  <2>4. i > n
    <3> SUFFICES ASSUME i <= n PROVE FALSE
      BY <2>3
    <3>1. results[i] = i /\ i \in 1..n  BY <2>3
    <3> QED  BY <2>3, <3>1
  <2>5. i = n + 1
    <3> SUFFICES ASSUME n + 1 < i PROVE FALSE
      BY <2>3, <2>4
    <3>1. n + 1 \in Calls /\ entry[n + 1] # "none"  BY <2>3
    <3>2. waveOf[n + 1] <= wave
      <4>1. placed = N  BY <2>1 DEF PartitionInv
      <4> QED  BY <2>3, <3>1, <4>1 DEF PartitionInv
    <3>3. waveOf[n + 1] = wave
      <4>1. waveOf[n + 1] < wave => n + 1 <= n  BY <2>1, <3>1
      <4>2. waveOf[n + 1] \in Nat  BY <3>1
      <4> QED  BY <2>3, <3>2, <4>1, <4>2
    <3>4. \A k \in DOMAIN results : results[k] # n + 1
      <4> SUFFICES ASSUME NEW k \in DOMAIN results PROVE results[k] # n + 1
        OBVIOUS
      <4>1. k \in 1..n  BY SMTT(30)
      <4>2. results[k] = k  BY <4>1
      <4> QED  BY <2>3, <4>1, <4>2
    <3>5. n + 1 \in unpublished  BY <3>1, <3>3, <3>4 DEF unpublished, current
    <3> QED  BY <2>1, <2>3, <3>5
  <2>6. Len(results') = n + 1 /\ \A k \in 1..(n + 1) : results'[k] = k
    BY <2>1, <2>3, <2>5
  <2>7. Len(results') <= N  BY <2>5, <2>6
  <2>8. \A j \in Calls : j <= n + 1 => waveOf[j] <= wave /\ entry[j] # "none"
    BY <2>1, <2>3, <2>5
  <2>9. \A j \in Calls : waveOf[j] < wave => entry[j] # "none" /\ j <= n + 1
    BY <2>1, <2>3
  <2> HIDE DEF n
  <2> QED  BY <2>1, <2>2, <2>6, <2>7, <2>8, <2>9
<1>6. CASE Abort
  <2>1. UNCHANGED <<unprepared, current, lastWave>>  BY <1>6 DEF Abort, unprepared, current, lastWave
  <2> QED  BY <1>6, <2>1 DEF Abort
<1>7. ASSUME NEW i \in Calls, Timeout(i) PROVE ProgressInv'
  <2>1. UNCHANGED <<unprepared, current, lastWave>>  BY <1>7 DEF Timeout, unprepared, current, lastWave
  <2> QED  BY <1>7, <2>1 DEF Timeout
<1>8. ASSUME NEW i \in Calls, Work(i) PROVE ProgressInv'
  <2>1. UNCHANGED <<unprepared, current, lastWave>>  BY <1>8 DEF Work, unprepared, current, lastWave
  <2> QED  BY <1>8, <2>1 DEF Work
<1>9. CASE UNCHANGED vars
  BY <1>9 DEF vars, batchVars, unprepared, current, lastWave, Calls
<1> QED
  BY <1>1, <1>2, <1>3, <1>4, <1>5, <1>6, <1>7, <1>8, <1>9
     DEF Next, Executor

(* Only a started call is in the queue, under the key of its file. *)
LEMMA StartedNext == WaveTypes /\ PartitionInv /\ StartedInv /\ [Next]_vars => StartedInv'
<1> SUFFICES ASSUME WaveTypes, PartitionInv, StartedInv, [Next]_vars PROVE StartedInv'
  OBVIOUS
<1> USE WaveBatchAssumption, FileMutationQueueAssumption
    DEF WaveTypes, QueueTypes, BatchTypes, Stages, become, leave, enter, queueVars, StartedInv, Active, file, Mutates
<1>1. CASE Partition
  <2>1. \A i \in Calls : entry[i] = "none"  BY <1>1 DEF Partition
  <2> QED  BY <1>1, <2>1 DEF Partition
<1>2. CASE WaveEnd
  <2>1. wave' = wave + 1 /\ phase' # "partition"  BY <1>2 DEF WaveEnd
  <2> QED  BY <1>2, <2>1 DEF WaveEnd
<1>3. ASSUME NEW i \in Calls, Prepare(i) PROVE StartedInv'
  <2>1. i \in Ops /\ entry[i] = "none" /\ waveOf[i] = wave /\ stage[i] = "out"
    BY <1>3 DEF Prepare, unprepared, current
  <2>2. phase' # "partition"  BY <1>3 DEF Prepare, afterPreparation
  <2>3. PICK e \in {"immediate", "prepared"} : entry' = [entry EXCEPT ![i] = e]  BY <1>3 DEF Prepare
  <2>4. \A j \in Ops : j # i => path'[j] = path[j]  BY <1>3 DEF Prepare
  <2>5. UNCHANGED <<stage, key, unresolved, calls, waveOf, wave>>  BY <1>3 DEF Prepare
  <2> QED  BY <2>1, <2>2, <2>3, <2>4, <2>5
<1>4. ASSUME NEW i \in Calls, Start(i) PROVE StartedInv'
  BY <1>4 DEF Start, Enter, current
<1>5. ASSUME NEW i \in Calls, Publish(i) PROVE StartedInv'
  BY <1>5 DEF Publish
<1>6. CASE Abort
  BY <1>6 DEF Abort
<1>7. ASSUME NEW i \in Calls, Timeout(i) PROVE StartedInv'
  BY <1>7 DEF Timeout
<1>8. ASSUME NEW i \in Calls, Work(i), ResolveKey(i) PROVE StartedInv'
  BY <1>8 DEF ResolveKey, Work
<1>9. ASSUME NEW i \in Calls, Work(i), ResolveKeyFails(i) PROVE StartedInv'
  BY <1>9 DEF ResolveKeyFails, Work
<1>10. ASSUME NEW i \in Calls, Work(i), Register(i) PROVE StartedInv'
  BY <1>10 DEF Register, Work
<1>11. ASSUME NEW i \in Calls, Work(i), Begin(i, cancelled(i)) PROVE StartedInv'
  BY <1>11 DEF Begin, Work
<1>12. ASSUME NEW i \in Calls, Work(i), StartWrite(i, calls[i].tool, cancelled(i)) PROVE StartedInv'
  BY <1>12 DEF StartWrite, Work
<1>13. ASSUME NEW i \in Calls, Work(i), EndWrite(i) PROVE StartedInv'
  BY <1>13 DEF EndWrite, Work
<1>14. ASSUME NEW i \in Calls, Work(i), Returns(i) PROVE StartedInv'
  BY <1>14 DEF Returns, Work
<1>15. CASE UNCHANGED vars
  BY <1>15 DEF vars, batchVars
<1> QED
  BY <1>1, <1>2, <1>3, <1>4, <1>5, <1>6, <1>7, <1>8, <1>9, <1>10, <1>11, <1>12, <1>13, <1>14, <1>15
     DEF Next, Executor, Work, Returns

(* The first call of the registration queue leaves it. *)
LEMMA FirstLeaves ==
  ASSUME WaveTypes, RegistrationInv, NEW i \in Ops,
         Registering(i), ~Registering(i)', registrations[1] = i,
         \A j \in Ops : j # i => stage'[j] = stage[j], stage'[i] # "resolved",
         registrations' = Tail(registrations), UNCHANGED waveOf,
         Active(i)' => \A j \in Ops : Registering(j) => waveOf[i] <= waveOf[j]
  PROVE  RegistrationInv'
<1> USE DEF WaveTypes, QueueTypes, BatchTypes
<1> DEFINE n == Len(registrations)
<1>1. n \in Nat /\ n > 0 /\ Len(registrations') = n - 1
      /\ \A k \in 1..(n - 1) : registrations'[k] = registrations[k + 1]
  BY DEF RegistrationInv
<1>2. \A k \in 1..n : registrations[k] = i <=> k = 1
  BY <1>1 DEF RegistrationInv
<1>3. \A k \in 1..n : registrations[k] \in Ops
  BY <1>1
<1>4. \A j \in Ops : j # i => (Registering(j)' <=> Registering(j)) /\ (Active(j)' <=> Active(j))
  BY DEF Registering, Active
<1> HIDE DEF n
<1>5. ASSUME NEW j \in Ops PROVE Registering(j)' <=> \E k \in 1..(n - 1) : registrations'[k] = j
  <2>1. CASE j = i
    <3>1. \A k \in 1..(n - 1) : registrations'[k] # i  BY <1>1, <1>2
    <3> QED  BY <2>1, <3>1
  <2>2. CASE j # i
    <3>1. Registering(j) <=> \E k \in 1..n : registrations[k] = j  BY DEF RegistrationInv, n
    <3>2. ASSUME NEW k \in 1..n, registrations[k] = j PROVE \E m \in 1..(n - 1) : registrations'[m] = j
      <4>1. k - 1 \in 1..(n - 1) /\ registrations'[k - 1] = j  BY <1>1, <1>2, <2>2, <3>2
      <4> QED  BY <4>1
    <3>3. ASSUME NEW m \in 1..(n - 1), registrations'[m] = j PROVE \E k \in 1..n : registrations[k] = j
      <4>1. m + 1 \in 1..n /\ registrations[m + 1] = j  BY <1>1, <3>3
      <4> QED  BY <4>1
    <3> QED  BY <1>4, <2>2, <3>1, <3>2, <3>3
  <2> QED  BY <2>1, <2>2
<1>6. \A k, m \in 1..(n - 1) : registrations'[k] = registrations'[m] => k = m
  <2> SUFFICES ASSUME NEW k \in 1..(n - 1), NEW m \in 1..(n - 1), registrations'[k] = registrations'[m]
               PROVE  k = m
    OBVIOUS
  <2>1. k + 1 \in 1..n /\ m + 1 \in 1..n /\ registrations[k + 1] = registrations[m + 1]  BY <1>1
  <2>2. k + 1 = m + 1  BY <2>1 DEF RegistrationInv, n
  <2> QED  BY <2>2
<1>7. \A k, m \in 1..(n - 1) : k < m => waveOf'[registrations'[k]] <= waveOf'[registrations'[m]]
  <2> SUFFICES ASSUME NEW k \in 1..(n - 1), NEW m \in 1..(n - 1), k < m
               PROVE  waveOf[registrations[k + 1]] <= waveOf[registrations[m + 1]]
    BY <1>1
  <2>1. k + 1 \in 1..n /\ m + 1 \in 1..n /\ k + 1 < m + 1  BY <1>1
  <2> QED  BY <2>1 DEF RegistrationInv, n
<1>8. \A j \in Ops : stage'[j] # "resolved"
  BY DEF RegistrationInv
<1>9. \A j, m \in Ops : Registering(j)' /\ Active(m)' => waveOf'[m] <= waveOf'[j]
  BY <1>4 DEF RegistrationInv
<1> QED  BY <1>1, <1>5, <1>6, <1>7, <1>8, <1>9, SMTT(30) DEF RegistrationInv

(* Calls register in the order of their waves: a wave enters its calls only *)
(* after those before it, and the registration queue keeps their order.     *)
LEMMA RegistrationNext == WaveTypes /\ StartedInv /\ RegistrationInv /\ [Next]_vars => RegistrationInv'
<1> SUFFICES ASSUME WaveTypes, StartedInv, RegistrationInv, [Next]_vars PROVE RegistrationInv'
  OBVIOUS
<1> USE WaveBatchAssumption, FileMutationQueueAssumption
    DEF WaveTypes, QueueTypes, BatchTypes, Stages, become, leave, enter, queueVars, RegistrationInv, Active, Registering
<1>1. CASE Partition
  <2>1. \A i \in Ops : stage[i] = "out"  BY <1>1 DEF Partition, StartedInv
  <2>2. registrations = <<>>
    <3>1. \A k \in 1..Len(registrations) : registrations[k] \in Ops  OBVIOUS
    <3>2. ASSUME NEW k \in 1..Len(registrations) PROVE FALSE
      <4>1. Registering(registrations[k])  BY <3>1
      <4> QED  BY <2>1, <3>1, <4>1
    <3>3. Len(registrations) = 0  BY <3>2
    <3> QED  BY <3>3
  <2> QED  BY <1>1, <2>1, <2>2 DEF Partition
<1>2. CASE WaveEnd
  BY <1>2 DEF WaveEnd
<1>3. ASSUME NEW i \in Calls, Prepare(i) PROVE RegistrationInv'
  BY <1>3 DEF Prepare
<1>4. ASSUME NEW i \in Calls, Start(i) PROVE RegistrationInv'
  <2>1. CASE aborted  BY <1>4, <2>1 DEF Start
  <2>2. CASE ~aborted /\ Mutates(i)
    <3>1. /\ stage' = [stage EXCEPT ![i] = "registering"] /\ stage[i] = "out"
          /\ registrations' = Append(registrations, i) /\ UNCHANGED waveOf
      BY <1>4, <2>2 DEF Start, Enter
    <3>2. \A j \in Ops : stage[j] # "out" => waveOf[j] <= waveOf[i]
      BY <1>4 DEF StartedInv, Start, current
    <3> DEFINE n == Len(registrations)
    <3>3. /\ n \in Nat /\ Len(registrations') = n + 1 /\ registrations'[n + 1] = i
          /\ \A k \in 1..n : registrations'[k] = registrations[k]
      BY <3>1
    <3>4. \A k \in 1..n : registrations[k] \in Ops /\ registrations[k] # i /\ waveOf[registrations[k]] <= waveOf[i]
      <4> SUFFICES ASSUME NEW k \in 1..n
                   PROVE  registrations[k] \in Ops /\ registrations[k] # i /\ waveOf[registrations[k]] <= waveOf[i]
        OBVIOUS
      <4>1. registrations[k] \in Ops  BY <3>3
      <4>2. Registering(registrations[k])  BY <4>1
      <4> QED  BY <3>1, <3>2, <4>1, <4>2
    <3>5. \A j \in Ops : Registering(j)' <=> Registering(j) \/ j = i  BY <3>1
    <3> HIDE DEF n
    <3>6. \A j \in Ops : Registering(j)' <=> \E k \in 1..Len(registrations') : registrations'[k] = j
      <4> SUFFICES ASSUME NEW j \in Ops
                   PROVE  Registering(j)' <=> \E k \in 1..(n + 1) : registrations'[k] = j
        BY <3>3
      <4>1. Registering(j) <=> \E k \in 1..n : registrations[k] = j  BY DEF n
      <4>2. (\E k \in 1..(n + 1) : registrations'[k] = j) <=> (j = i \/ \E k \in 1..n : registrations[k] = j)
        <5>1. 1..(n + 1) = (1..n) \cup {n + 1}  BY <3>3
        <5> QED  BY <3>3, <5>1
      <4> QED  BY <3>5, <4>1, <4>2
    <3>7. \A k, m \in 1..(n + 1) : registrations'[k] = registrations'[m] => k = m
      BY <3>3, <3>4 DEF n
    <3>8. \A k, m \in 1..(n + 1) : k < m => waveOf'[registrations'[k]] <= waveOf'[registrations'[m]]
      BY <3>1, <3>3, <3>4 DEF n
    <3>9. \A j \in Ops : stage'[j] = "resolved" => Len(registrations') > 0 /\ registrations'[1] = j
      BY <3>1, <3>3 DEF n
    <3>10. \A j, m \in Ops : Registering(j)' /\ Active(m)' => waveOf'[m] <= waveOf'[j]
      BY <3>1, <3>2
    <3> QED  BY <3>3, <3>6, <3>7, <3>8, <3>9, <3>10
  <2>3. CASE ~aborted /\ ~Mutates(i)
    <3>1. stage[i] = "out"  BY <1>4 DEF Start, StartedInv
    <3> QED  BY <1>4, <2>3, <3>1 DEF Start
  <2> QED  BY <2>1, <2>2, <2>3
<1>5. ASSUME NEW i \in Calls, Publish(i) PROVE RegistrationInv'
  BY <1>5 DEF Publish
<1>6. CASE Abort
  BY <1>6 DEF Abort
<1>7. ASSUME NEW i \in Calls, Timeout(i) PROVE RegistrationInv'
  BY <1>7 DEF Timeout
<1>8. ASSUME NEW i \in Calls, Work(i), ResolveKey(i) PROVE RegistrationInv'
  <2>1. /\ stage[i] = "registering" /\ Head(registrations) = i /\ stage' = [stage EXCEPT ![i] = "resolved"]
        /\ UNCHANGED <<registrations, waveOf>>
    BY <1>8 DEF ResolveKey, Work
  <2>2. Len(registrations) > 0 /\ registrations[1] = i
    BY <2>1
  <2>3. \A j \in Ops : (Registering(j)' <=> Registering(j)) /\ (Active(j)' <=> Active(j))  BY <2>1
  <2> QED  BY <2>1, <2>2, <2>3
<1>9. ASSUME NEW i \in Calls, Work(i), ResolveKeyFails(i) PROVE RegistrationInv'
  <2>1. /\ stage[i] = "registering" /\ registrations[1] = i /\ stage' = [stage EXCEPT ![i] = "settled"]
        /\ registrations' = Tail(registrations) /\ UNCHANGED waveOf
    BY <1>9 DEF ResolveKeyFails, Work
  <2>2. Registering(i) /\ ~Registering(i)' /\ ~Active(i)'  BY <2>1
  <2> QED  BY <2>1, <2>2, FirstLeaves, ZenonT(60) DEF RegistrationInv
<1>10. ASSUME NEW i \in Calls, Work(i), Register(i) PROVE RegistrationInv'
  <2>1. /\ stage[i] = "resolved" /\ stage' = [stage EXCEPT ![i] = "queued"]
        /\ registrations' = Tail(registrations) /\ UNCHANGED waveOf
    BY <1>10 DEF Register, Work
  <2>2. Registering(i) /\ ~Registering(i)' /\ registrations[1] = i  BY <2>1
  <2>3. \A j \in Ops : Registering(j) => waveOf[i] <= waveOf[j]
    <3> SUFFICES ASSUME NEW j \in Ops, Registering(j) PROVE waveOf[i] <= waveOf[j]
      OBVIOUS
    <3>1. PICK k \in 1..Len(registrations) : registrations[k] = j  OBVIOUS
    <3> QED  BY <2>2, <3>1, SMTT(30)
  <2> QED  BY <2>1, <2>2, <2>3, FirstLeaves, ZenonT(60)
<1>11. ASSUME NEW i \in Calls, Work(i), Begin(i, cancelled(i)) PROVE RegistrationInv'
  BY <1>11, SMTT(30) DEF Begin, Work
<1>12. ASSUME NEW i \in Calls, Work(i), StartWrite(i, calls[i].tool, cancelled(i)) PROVE RegistrationInv'
  <2>1. stage[i] = "reading" /\ UNCHANGED <<registrations, waveOf>>  BY <1>12 DEF StartWrite, Work
  <2>2. PICK s \in {"settled", "writing"} : stage' = [stage EXCEPT ![i] = s]  BY <1>12 DEF StartWrite
  <2>3. \A j \in Ops : (Registering(j)' <=> Registering(j)) /\ (Active(j)' => Active(j))  BY <2>1, <2>2
  <2>4. \A j \in Ops : stage'[j] = "resolved" => stage[j] = "resolved"  BY <2>1, <2>2
  <2> QED  BY <2>1, <2>3, <2>4
<1>13. ASSUME NEW i \in Calls, Work(i), EndWrite(i) PROVE RegistrationInv'
  BY <1>13 DEF EndWrite, Work
<1>14. ASSUME NEW i \in Calls, Work(i), Returns(i) PROVE RegistrationInv'
  BY <1>14 DEF Returns, Work
<1>15. CASE UNCHANGED vars
  BY <1>15 DEF vars, batchVars
<1> QED
  BY <1>1, <1>2, <1>3, <1>4, <1>5, <1>6, <1>7, <1>8, <1>9, <1>10, <1>11, <1>12, <1>13, <1>14, <1>15
     DEF Next, Executor, Work, Returns

(***************************************************************************)
(* The chains of the mutation queue.                                       *)
(***************************************************************************)
(* No other mutation of its key is before i. *)
First(i, r) == \A j \in Ops : Beside(i, j) => r[i] <= r[j]

(* A chain stays as it is while its mutations do. *)
LEMMA LineKept ==
  ASSUME WaveTypes, NEW r \in [Ops -> Nat], LineInv(r),
         \A i \in Ops : Active(i)' <=> Active(i),
         \A i \in Ops : Active(i) => key'[i] = key[i] /\ waits'[i] = waits[i] /\ waveOf'[i] = waveOf[i],
         tail' = tail,
         \A i \in Ops : Inside(i)' => First(i, r)
  PROVE  LineInv(r)'
<1> USE FileMutationQueueAssumption DEF WaveTypes, QueueTypes
<1>1. \A i, j \in Ops : Beside(i, j)' <=> Beside(i, j)
  BY DEF Beside
<1>2. Ranked(r)'
  <2>1. \A i, j \in Ops : Beside(i, j)' /\ r[i] = r[j] => i = j  BY <1>1 DEF LineInv, Ranked
  <2>2. ASSUME NEW i \in Ops, NEW j \in Ops, Beside(i, j)', r[i] < r[j]
        PROVE  \E m \in Ops : waits'[j] = m /\ Beside(m, j)' /\ r[i] <= r[m] /\ r[m] < r[j]
    <3>1. Beside(i, j) /\ waits'[j] = waits[j]  BY <1>1, <2>2 DEF Beside
    <3>2. PICK m \in Ops : waits[j] = m /\ Beside(m, j) /\ r[i] <= r[m] /\ r[m] < r[j]
      BY <2>2, <3>1 DEF LineInv, Ranked
    <3> QED  BY <1>1, <3>1, <3>2
  <2>3. \A i, j \in Ops : Beside(i, j)' /\ Inside(j)' => r[j] <= r[i]
    BY <1>1 DEF First, Beside
  <2> QED  BY <2>1, <2>2, <2>3 DEF Ranked
<1>3. TailsLast(r)'
  <2>1. ASSUME NEW i \in Ops, Active(i)'
        PROVE  \E t \in Ops : tail'[key'[i]] = t /\ Beside(t, i)' /\ r[i] <= r[t]
    <3>1. key'[i] = key[i] /\ Active(i)  BY <2>1
    <3>2. PICK t \in Ops : tail[key[i]] = t /\ Beside(t, i) /\ r[i] <= r[t]
      BY <3>1 DEF LineInv, TailsLast
    <3> QED  BY <1>1, <3>1, <3>2
  <2>2. \A k \in Names, t \in Ops : tail'[k] = t => Active(t)' /\ key'[t] = k
    BY DEF LineInv, TailsLast
  <2> QED  BY <2>1, <2>2 DEF TailsLast
<1>4. WavesRanked(r)'
  BY <1>1 DEF LineInv, WavesRanked, Beside
<1> QED  BY <1>2, <1>3, <1>4 DEF LineInv

(* The first mutation of a chain leaves it (the end of                      *)
(* withFileMutationQueue): the next becomes the first.                      *)
LEMMA LineLeft ==
  ASSUME WaveTypes, NEW r \in [Ops -> Nat], LineInv(r), NEW i \in Ops,
         Active(i), First(i, r), leave(i), UNCHANGED <<key, waits, waveOf>>
  PROVE  LineInv(r)'
<1> USE FileMutationQueueAssumption DEF WaveTypes, QueueTypes, NoOp
<1>1. /\ stage' = [stage EXCEPT ![i] = "settled"]
      /\ tail' = IF tail[key[i]] = i THEN [tail EXCEPT ![key[i]] = NoOp] ELSE tail
  BY DEF leave, become
<1>2. \A j \in Ops : Active(j)' <=> Active(j) /\ j # i
  BY <1>1 DEF Active
<1>3. \A j, m \in Ops : Beside(j, m)' <=> Beside(j, m) /\ j # i /\ m # i
  BY <1>2 DEF Beside
<1>4. \A j \in Ops : Inside(j)' => Inside(j)
  BY <1>1 DEF Inside
<1>5. Ranked(r)'
  <2>1. \A j, m \in Ops : Beside(j, m)' /\ r[j] = r[m] => j = m  BY <1>3 DEF LineInv, Ranked
  <2>2. ASSUME NEW j \in Ops, NEW m \in Ops, Beside(j, m)', r[j] < r[m]
        PROVE  \E w \in Ops : waits'[m] = w /\ Beside(w, m)' /\ r[j] <= r[w] /\ r[w] < r[m]
    <3>1. Beside(j, m) /\ j # i /\ m # i  BY <1>3, <2>2
    <3>2. PICK w \in Ops : waits[m] = w /\ Beside(w, m) /\ r[j] <= r[w] /\ r[w] < r[m]
      BY <2>2, <3>1 DEF LineInv, Ranked
    <3>3. w # i
      <4> SUFFICES ASSUME w = i PROVE FALSE
        OBVIOUS
      <4>1. Beside(i, j)  BY <3>1, <3>2 DEF Beside
      <4>2. r[i] = r[j]  BY <3>2, <4>1 DEF First
      <4> QED  BY <3>1, <4>1, <4>2 DEF LineInv, Ranked
    <3> QED  BY <1>3, <3>1, <3>2, <3>3
  <2>3. \A j, m \in Ops : Beside(j, m)' /\ Inside(m)' => r[m] <= r[j]  BY <1>3, <1>4 DEF LineInv, Ranked
  <2> QED  BY <2>1, <2>2, <2>3 DEF Ranked
<1>6. TailsLast(r)'
  <2>1. ASSUME NEW j \in Ops, Active(j)'
        PROVE  \E t \in Ops : tail'[key'[j]] = t /\ Beside(t, j)' /\ r[j] <= r[t]
    <3>1. Active(j) /\ j # i  BY <1>2, <2>1
    <3>2. PICK t \in Ops : tail[key[j]] = t /\ Beside(t, j) /\ r[j] <= r[t]
      BY <3>1 DEF LineInv, TailsLast
    <3>3. t # i
      <4> SUFFICES ASSUME t = i PROVE FALSE
        OBVIOUS
      <4>1. Beside(i, j)  BY <3>2
      <4>2. r[i] = r[j]  BY <3>2, <4>1 DEF First
      <4> QED  BY <3>1, <4>1, <4>2 DEF LineInv, Ranked
    <3>4. tail'[key'[j]] = t  BY <1>1, <3>2, <3>3
    <3>5. Beside(t, j)'  BY <1>3, <3>1, <3>2, <3>3
    <3> QED  BY <3>2, <3>4, <3>5
  <2>2. ASSUME NEW k \in Names, NEW t \in Ops, tail'[k] = t PROVE Active(t)' /\ key'[t] = k
    <3>1. tail[k] = t /\ (k = key[i] => t # i)  BY <1>1, <2>2
    <3>2. Active(t) /\ key[t] = k  BY <3>1 DEF LineInv, TailsLast
    <3> QED  BY <1>2, <3>1, <3>2
  <2> QED  BY <2>1, <2>2 DEF TailsLast
<1>7. WavesRanked(r)'
  BY <1>3 DEF LineInv, WavesRanked
<1> QED  BY <1>5, <1>6, <1>7 DEF LineInv

(* A registered mutation is last in the chain of its key. *)
LEMMA LineGrows ==
  ASSUME WaveTypes, NEW r \in [Ops -> Nat], LineInv(r), NEW i \in Ops, Register(i), UNCHANGED waveOf,
         \A j \in Ops : Active(j) => waveOf[j] <= waveOf[i]
  PROVE  InLine'
<1> USE FileMutationQueueAssumption DEF WaveTypes, QueueTypes, NoOp
<1>1. PICK t \in Ops \cup {NoOp} : t = tail[key[i]]
  OBVIOUS
<1>2. PICK q \in [Ops -> Nat] : q = [r EXCEPT ![i] = IF t = NoOp THEN 0 ELSE r[t] + 1]
  <2>1. t # NoOp => r[t] + 1 \in Nat  OBVIOUS
  <2>2. (IF t = NoOp THEN 0 ELSE r[t] + 1) \in Nat  BY <2>1
  <2> QED  BY <2>2
<1>3. /\ stage[i] = "resolved" /\ stage' = [stage EXCEPT ![i] = "queued"]
      /\ waits' = [waits EXCEPT ![i] = t] /\ tail' = [tail EXCEPT ![key[i]] = i] /\ UNCHANGED key
  BY <1>1 DEF Register, become
<1>4. \A j \in Ops : j # i => q[j] = r[j]  BY <1>2
<1>5. \A j \in Ops : Active(j)' <=> Active(j) \/ j = i  BY <1>3 DEF Active
<1>6. ~Active(i)  BY <1>3 DEF Active
<1>7. \A j \in Ops : Active(j) /\ key[j] = key[i] => t \in Ops /\ Beside(t, j) /\ r[j] <= r[t] /\ t # i /\ q[j] < q[i]
  <2> SUFFICES ASSUME NEW j \in Ops, Active(j), key[j] = key[i]
               PROVE  t \in Ops /\ Beside(t, j) /\ r[j] <= r[t] /\ t # i /\ q[j] < q[i]
    OBVIOUS
  <2>1. t \in Ops /\ Beside(t, j) /\ r[j] <= r[t]  BY <1>1 DEF LineInv, TailsLast
  <2>2. t # i /\ j # i /\ t # NoOp  BY <1>6, <2>1 DEF Beside
  <2>3. q[i] = r[t] + 1  BY <1>2, <2>2
  <2>4. q[j] = r[j] /\ r[j] \in Nat /\ r[t] \in Nat  BY <1>4, <2>1, <2>2
  <2> QED  BY <2>1, <2>2, <2>3, <2>4
<1>8. t # NoOp => t \in Ops /\ Active(t) /\ key[t] = key[i]
  BY <1>1 DEF LineInv, TailsLast
<1>9. \A j, m \in Ops : j # i /\ m # i => (Beside(j, m)' <=> Beside(j, m))
  BY <1>3, <1>5 DEF Beside
<1>10. \A j \in Ops : Beside(i, j)' /\ j # i => Active(j) /\ key[j] = key[i]
  BY <1>3, <1>5 DEF Beside
<1>11. \A j \in Ops : Beside(j, i)' /\ j # i => Active(j) /\ key[j] = key[i]
  BY <1>3, <1>5 DEF Beside
<1>12. Ranked(q)'
  <2>1. ASSUME NEW j \in Ops, NEW m \in Ops, Beside(j, m)', q[j] = q[m] PROVE j = m
    <3>1. CASE j # i /\ m # i  BY <1>4, <1>9, <2>1, <3>1 DEF LineInv, Ranked
    <3>2. CASE j = i /\ m # i  BY <1>2, <1>7, <1>10, <2>1, <3>2
    <3>3. CASE j # i /\ m = i  BY <1>2, <1>7, <1>11, <2>1, <3>3
    <3> QED  BY <3>1, <3>2, <3>3
  <2>2. ASSUME NEW j \in Ops, NEW m \in Ops, Beside(j, m)', q[j] < q[m]
        PROVE  \E w \in Ops : waits'[m] = w /\ Beside(w, m)' /\ q[j] <= q[w] /\ q[w] < q[m]
    <3>1. CASE m = i
      <4>1. j # i  BY <1>2, <2>2, <3>1
      <4>2. Active(j) /\ key[j] = key[i]  BY <1>11, <2>2, <3>1, <4>1
      <4>3. t \in Ops /\ Beside(t, j) /\ r[j] <= r[t] /\ t # i  BY <1>7, <4>2
      <4>4. PICK w \in Ops : w = t  BY <4>3
      <4>5. Active(w) /\ key[w] = key[i]  BY <4>2, <4>3, <4>4 DEF Beside
      <4>6. q[w] < q[i] /\ q[j] <= q[w]  BY <1>4, <1>7, <4>1, <4>3, <4>4, <4>5
      <4>7. waits'[m] = w  BY <1>3, <3>1, <4>4
      <4>8. Beside(w, m)'  BY <1>3, <1>5, <3>1, <4>5 DEF Beside
      <4> QED  BY <3>1, <4>6, <4>7, <4>8
    <3>2. CASE m # i
      <4>1. j # i
        <5> SUFFICES ASSUME j = i PROVE FALSE
          OBVIOUS
        <5>1. q[m] < q[i]  BY <1>7, <1>10, <2>2, <3>2
        <5> QED  BY <1>2, <2>2, <5>1
      <4>2. Beside(j, m) /\ r[j] < r[m]  BY <1>4, <1>9, <2>2, <3>2, <4>1
      <4>3. PICK w \in Ops : waits[m] = w /\ Beside(w, m) /\ r[j] <= r[w] /\ r[w] < r[m]
        BY <4>2 DEF LineInv, Ranked
      <4>4. w # i /\ waits'[m] = w  BY <1>3, <1>6, <3>2, <4>3 DEF Beside
      <4> QED  BY <1>4, <1>9, <3>2, <4>1, <4>3, <4>4
    <3> QED  BY <3>1, <3>2
  <2>3. ASSUME NEW j \in Ops, NEW m \in Ops, Beside(j, m)', Inside(m)' PROVE q[m] <= q[j]
    <3>1. m # i /\ Inside(m)  BY <1>3, <2>3 DEF Inside
    <3>2. CASE j = i  BY <1>2, <1>7, <1>10, <2>3, <3>1, <3>2
    <3>3. CASE j # i  BY <1>4, <1>9, <2>3, <3>1, <3>3 DEF LineInv, Ranked
    <3> QED  BY <3>2, <3>3
  <2> QED  BY <2>1, <2>2, <2>3 DEF Ranked
<1>13. TailsLast(q)'
  <2>1. ASSUME NEW j \in Ops, Active(j)'
        PROVE  \E u \in Ops : tail'[key'[j]] = u /\ Beside(u, j)' /\ q[j] <= q[u]
    <3>1. CASE key[j] = key[i]
      <4>1. tail'[key'[j]] = i  BY <1>3, <3>1
      <4>2. q[j] <= q[i]
        <5>1. CASE j = i  BY <1>2, <5>1
        <5>2. CASE j # i  BY <1>2, <1>5, <1>7, <2>1, <3>1, <5>2
        <5> QED  BY <5>1, <5>2
      <4>3. Beside(i, j)'  BY <1>3, <1>5, <2>1, <3>1 DEF Beside
      <4> QED  BY <4>1, <4>2, <4>3
    <3>2. CASE key[j] # key[i]
      <4>1. Active(j) /\ j # i /\ tail'[key'[j]] = tail[key[j]]  BY <1>3, <1>5, <2>1, <3>2
      <4>2. PICK u \in Ops : tail[key[j]] = u /\ Beside(u, j) /\ r[j] <= r[u]
        BY <4>1 DEF LineInv, TailsLast
      <4>3. u # i  BY <1>6, <4>2 DEF Beside
      <4> QED  BY <1>4, <1>9, <4>1, <4>2, <4>3
    <3> QED  BY <3>1, <3>2
  <2>2. ASSUME NEW k \in Names, NEW u \in Ops, tail'[k] = u PROVE Active(u)' /\ key'[u] = k
    <3>1. CASE k = key[i]  BY <1>3, <1>5, <2>2, <3>1
    <3>2. CASE k # key[i]
      <4>1. tail[k] = u  BY <1>3, <2>2, <3>2
      <4>2. Active(u) /\ key[u] = k  BY <4>1 DEF LineInv, TailsLast
      <4> QED  BY <1>3, <1>5, <4>2
    <3> QED  BY <3>1, <3>2
  <2> QED  BY <2>1, <2>2 DEF TailsLast
<1>14. WavesRanked(q)'
  <2> SUFFICES ASSUME NEW j \in Ops, NEW m \in Ops, Beside(j, m)', waveOf[j] < waveOf[m] PROVE q[j] < q[m]
    BY DEF WavesRanked
  <2>1. waveOf[j] \in Nat /\ waveOf[m] \in Nat  BY WaveBatchAssumption DEF BatchTypes
  <2>2. CASE j # i /\ m # i  BY <1>4, <1>9, <2>2 DEF LineInv, WavesRanked
  <2>3. CASE m = i /\ j # i  BY <1>7, <1>11, <2>3
  <2>4. CASE j = i  
    <3>1. m # i  BY <2>4, <2>1
    <3>2. Active(m)  BY <1>10, <2>4, <3>1
    <3>3. waveOf[m] <= waveOf[i] /\ waveOf[m] \in Nat /\ waveOf[i] \in Nat
      BY <3>2, WaveBatchAssumption DEF BatchTypes
    <3> QED  BY <2>4, <3>3
  <2> QED  BY <2>2, <2>3, <2>4
<1>15. LineInv(q)'  BY <1>12, <1>13, <1>14 DEF LineInv
<1> QED  BY <1>2, <1>15 DEF InLine

(* Whatever leaves the queue and the waves alone leaves the chains alone. *)
LEMMA LineStutters ==
  ASSUME WaveTypes, InLine, UNCHANGED <<stage, key, waits, tail, waveOf>>
  PROVE  InLine'
<1>1. PICK r \in [Ops -> Nat] : LineInv(r)  BY DEF InLine
<1>2. \A i \in Ops : (Active(i)' <=> Active(i)) /\ (Inside(i)' => Inside(i))  BY DEF Active, Inside
<1>3. \A i \in Ops : Inside(i) => First(i, r)
  BY <1>1 DEF LineInv, Ranked, First, Beside
<1>4. LineInv(r)'  BY <1>1, <1>2, <1>3, LineKept
<1> QED  BY <1>4 DEF InLine

(* The chains stay chains. *)
LEMMA InLineNext == WaveTypes /\ StartedInv /\ RegistrationInv /\ InLine /\ [Next]_vars => InLine'
<1> SUFFICES ASSUME WaveTypes, StartedInv, RegistrationInv, InLine, [Next]_vars PROVE InLine'
  OBVIOUS
<1> USE WaveBatchAssumption, FileMutationQueueAssumption
<1>1. CASE Partition
  <2>1. \A i \in Ops : stage[i] = "out"  BY <1>1 DEF Partition, StartedInv
  <2>2. UNCHANGED <<stage, key, waits, tail>>  BY <1>1 DEF Partition, queueVars
  <2>3. PICK r \in [Ops -> Nat] : LineInv(r)  BY DEF InLine
  <2>4. \A i \in Ops : ~Active(i) /\ ~Active(i)' /\ ~Inside(i)'  BY <2>1, <2>2 DEF Active, Inside
  <2>5. LineInv(r)'  BY <2>2, <2>3, <2>4, LineKept
  <2> QED  BY <2>5 DEF InLine
<1>2. CASE WaveEnd
  <2>1. UNCHANGED <<stage, key, waits, tail, waveOf>>  BY <1>2 DEF WaveEnd, queueVars
  <2> QED  BY <2>1, LineStutters
<1>3. ASSUME NEW i \in Calls, Prepare(i) PROVE InLine'
  <2>1. UNCHANGED <<stage, key, waits, tail, waveOf>>  BY <1>3 DEF Prepare
  <2> QED  BY <2>1, LineStutters
<1>4. ASSUME NEW i \in Calls, Start(i) PROVE InLine'
  <2>1. PICK r \in [Ops -> Nat] : LineInv(r)  BY DEF InLine
  <2>2. UNCHANGED <<key, waits, tail, waveOf>>  BY <1>4 DEF Start, Enter, queueVars
  <2>3. stage[i] = "out"  BY <1>4 DEF Start, StartedInv
  <2>4. stage' = stage \/ stage' = [stage EXCEPT ![i] = "registering"] \/ stage' = [stage EXCEPT ![i] = "running"]
    BY <1>4 DEF Start, Enter, become, queueVars
  <2>5. \A j \in Ops : (Active(j)' <=> Active(j)) /\ (Inside(j)' => Inside(j))
    BY <2>3, <2>4 DEF Active, Inside, WaveTypes, QueueTypes
  <2>6. \A j \in Ops : Inside(j) => First(j, r)
    BY <2>1 DEF LineInv, Ranked, First, Beside
  <2>7. LineInv(r)'  BY <2>1, <2>2, <2>5, <2>6, LineKept
  <2> QED  BY <2>7 DEF InLine
<1>5. ASSUME NEW i \in Calls, Publish(i) PROVE InLine'
  <2>1. UNCHANGED <<stage, key, waits, tail, waveOf>>  BY <1>5 DEF Publish, queueVars
  <2> QED  BY <2>1, LineStutters
<1>6. CASE Abort
  <2>1. UNCHANGED <<stage, key, waits, tail, waveOf>>  BY <1>6 DEF Abort, queueVars
  <2> QED  BY <2>1, LineStutters
<1>7. ASSUME NEW i \in Calls, Timeout(i) PROVE InLine'
  <2>1. UNCHANGED <<stage, key, waits, tail, waveOf>>  BY <1>7 DEF Timeout, queueVars
  <2> QED  BY <2>1, LineStutters
<1>8. ASSUME NEW i \in Calls, Work(i), ResolveKey(i) PROVE InLine'
  <2>1. PICK r \in [Ops -> Nat] : LineInv(r)  BY DEF InLine
  <2>2. UNCHANGED <<waits, tail, waveOf>> /\ stage[i] = "registering" /\ stage' = [stage EXCEPT ![i] = "resolved"]
    BY <1>8 DEF ResolveKey, Work, become
  <2>3. \A j \in Ops : j # i => key'[j] = key[j]  BY <1>8 DEF ResolveKey, WaveTypes, QueueTypes
  <2>4. \A j \in Ops : (Active(j)' <=> Active(j)) /\ (Inside(j)' => Inside(j)) /\ (Active(j) => j # i)
    BY <2>2 DEF Active, Inside, WaveTypes, QueueTypes
  <2>5. \A j \in Ops : Inside(j) => First(j, r)
    BY <2>1 DEF LineInv, Ranked, First, Beside
  <2>6. LineInv(r)'  BY <2>1, <2>2, <2>3, <2>4, <2>5, LineKept
  <2> QED  BY <2>6 DEF InLine
<1>9. ASSUME NEW i \in Calls, Work(i), ResolveKeyFails(i) PROVE InLine'
  <2>1. PICK r \in [Ops -> Nat] : LineInv(r)  BY DEF InLine
  <2>2. /\ UNCHANGED <<key, waits, tail, waveOf>>
        /\ stage[i] = "registering" /\ stage' = [stage EXCEPT ![i] = "settled"]
    BY <1>9 DEF ResolveKeyFails, Work, become
  <2>3. \A j \in Ops : (Active(j)' <=> Active(j)) /\ (Inside(j)' => Inside(j))
    BY <2>2 DEF Active, Inside, WaveTypes, QueueTypes
  <2>4. \A j \in Ops : Inside(j) => First(j, r)
    BY <2>1 DEF LineInv, Ranked, First, Beside
  <2>5. LineInv(r)'  BY <2>1, <2>2, <2>3, <2>4, LineKept
  <2> QED  BY <2>5 DEF InLine
<1>10. ASSUME NEW i \in Calls, Work(i), Register(i) PROVE InLine'
  <2>1. PICK r \in [Ops -> Nat] : LineInv(r)  BY DEF InLine
  <2>2. UNCHANGED waveOf /\ Registering(i)  BY <1>10 DEF Work, Register, Registering
  <2>3. \A j \in Ops : Active(j) => waveOf[j] <= waveOf[i]  BY <2>2 DEF RegistrationInv
  <2> QED  BY <1>10, <2>1, <2>2, <2>3, LineGrows
<1>11. ASSUME NEW i \in Calls, Work(i), Begin(i, cancelled(i)) PROVE InLine'
  <2>1. PICK r \in [Ops -> Nat] : LineInv(r)  BY DEF InLine
  <2>2. /\ stage[i] = "queued" /\ UNCHANGED <<key, waits, waveOf>>
        /\ waits[i] # NoOp => stage[waits[i]] = "settled"
    BY <1>11 DEF Begin, Work
  <2>3. First(i, r)
    <3> SUFFICES ASSUME NEW j \in Ops, Beside(i, j), r[j] < r[i] PROVE FALSE
      BY DEF First
    <3>1. Beside(j, i)  BY DEF Beside
    <3>2. waits[i] \in Ops /\ Active(waits[i])  BY <2>1, <3>1 DEF LineInv, Ranked, Beside
    <3> QED  BY <2>2, <3>2 DEF Active, NoOp
  <2>4. Active(i)  BY <2>2 DEF Active
  <2>5. CASE leave(i)
    <3>1. LineInv(r)'  BY <2>1, <2>2, <2>3, <2>4, <2>5, LineLeft
    <3> QED  BY <3>1 DEF InLine
  <2>6. CASE stage' = [stage EXCEPT ![i] = "reading"] /\ UNCHANGED tail
    <3>1. \A j \in Ops : Active(j)' <=> Active(j)  BY <2>2, <2>6 DEF Active, WaveTypes, QueueTypes
    <3>2. \A j \in Ops : Inside(j)' => j = i \/ Inside(j)  BY <2>6 DEF Inside, WaveTypes, QueueTypes
    <3>3. \A j \in Ops : Inside(j)' => First(j, r)
      BY <2>1, <2>3, <3>2 DEF LineInv, Ranked, First, Beside
    <3>4. LineInv(r)'  BY <2>1, <2>2, <2>6, <3>1, <3>3, LineKept
    <3> QED  BY <3>4 DEF InLine
  <2> QED  BY <1>11, <2>5, <2>6 DEF Begin, become
<1>12. ASSUME NEW i \in Calls, Work(i), StartWrite(i, calls[i].tool, cancelled(i)) PROVE InLine'
  <2>1. PICK r \in [Ops -> Nat] : LineInv(r)  BY DEF InLine
  <2>2. stage[i] = "reading" /\ UNCHANGED <<key, waits, waveOf>>
    BY <1>12 DEF StartWrite, Work
  <2>3. Active(i) /\ Inside(i)  BY <2>2 DEF Active, Inside
  <2>4. \A j \in Ops : Inside(j) => First(j, r)
    BY <2>1 DEF LineInv, Ranked, First, Beside
  <2>5. CASE leave(i)
    <3>1. LineInv(r)'  BY <2>1, <2>2, <2>3, <2>4, <2>5, LineLeft
    <3> QED  BY <3>1 DEF InLine
  <2>6. CASE stage' = [stage EXCEPT ![i] = "writing"] /\ UNCHANGED tail
    <3>1. \A j \in Ops : Active(j)' <=> Active(j)  BY <2>2, <2>6 DEF Active, WaveTypes, QueueTypes
    <3>2. \A j \in Ops : Inside(j)' => Inside(j)  BY <2>2, <2>6 DEF Inside, WaveTypes, QueueTypes
    <3>3. LineInv(r)'  BY <2>1, <2>2, <2>4, <2>6, <3>1, <3>2, LineKept
    <3> QED  BY <3>3 DEF InLine
  <2> QED  BY <1>12, <2>5, <2>6 DEF StartWrite, become
<1>13. ASSUME NEW i \in Calls, Work(i), EndWrite(i) PROVE InLine'
  <2>1. PICK r \in [Ops -> Nat] : LineInv(r)  BY DEF InLine
  <2>2. stage[i] = "writing" /\ leave(i) /\ UNCHANGED <<key, waits, waveOf>>
    BY <1>13 DEF EndWrite, Work
  <2>3. Active(i) /\ First(i, r)
    BY <2>1, <2>2 DEF Active, Inside, LineInv, Ranked, First, Beside
  <2>4. LineInv(r)'  BY <2>1, <2>2, <2>3, LineLeft
  <2> QED  BY <2>4 DEF InLine
<1>14. ASSUME NEW i \in Calls, Work(i), Returns(i) PROVE InLine'
  <2>1. PICK r \in [Ops -> Nat] : LineInv(r)  BY DEF InLine
  <2>2. UNCHANGED <<key, waits, tail, waveOf>> /\ stage[i] = "running" /\ stage' = [stage EXCEPT ![i] = "settled"]
    BY <1>14 DEF Returns, Work, become
  <2>3. \A j \in Ops : (Active(j)' <=> Active(j)) /\ (Inside(j)' => Inside(j))
    BY <2>2 DEF Active, Inside, WaveTypes, QueueTypes
  <2>4. \A j \in Ops : Inside(j) => First(j, r)
    BY <2>1 DEF LineInv, Ranked, First, Beside
  <2>5. LineInv(r)'  BY <2>1, <2>2, <2>3, <2>4, LineKept
  <2> QED  BY <2>5 DEF InLine
<1>15. CASE UNCHANGED vars
  <2>1. UNCHANGED <<stage, key, waits, tail, waveOf>>  BY <1>15 DEF vars, queueVars, batchVars
  <2> QED  BY <2>1, LineStutters
<1> QED
  BY <1>1, <1>2, <1>3, <1>4, <1>5, <1>6, <1>7, <1>8, <1>9, <1>10, <1>11, <1>12, <1>13, <1>14, <1>15
     DEF Next, Executor, Work, Returns

(***************************************************************************)
(* The theorems.                                                           *)
(***************************************************************************)
WaveInv == WaveTypes /\ PartitionInv /\ StartedInv /\ RegistrationInv /\ InLine /\ ProgressInv

(* WaveInv is an invariant of a batch. *)
LEMMA WaveInvariant == Spec => []WaveInv
<1>1. Init => WaveInv
  <2> SUFFICES ASSUME Init PROVE WaveInv
    OBVIOUS
  <2> USE WaveBatchAssumption, FileMutationQueueAssumption DEF Init, QueueInit
  <2>1. WaveTypes
    <3>1. QueueTypes  BY DEF QueueTypes, Stages, NoOp
    <3>2. BatchTypes
      <4>1. N \in Nat /\ 0 \in 0..N  OBVIOUS
      <4>2. results \in Seq(Calls) /\ waveOf \in [Calls -> Nat]  OBVIOUS
      <4>3. entry \in [Calls -> {"none", "prepared", "immediate", "started"}]  OBVIOUS
      <4> QED  BY <4>1, <4>2, <4>3 DEF BatchTypes
    <3> QED  BY <3>1, <3>2 DEF WaveTypes
  <2>2. PartitionInv  BY DEF PartitionInv, lastWave, Calls
  <2>3. StartedInv  BY DEF StartedInv, Active
  <2>4. RegistrationInv  BY DEF RegistrationInv, Registering, Active
  <2>5. InLine
    <3> DEFINE r == [i \in Ops |-> 0]
    <3>1. r \in [Ops -> Nat]  OBVIOUS
    <3>2. \A i \in Ops : ~Active(i)  BY DEF Active
    <3>3. \A k \in Names, t \in Ops : tail[k] # t  BY DEF NoOp
    <3>4. LineInv(r)  BY <3>2, <3>3 DEF LineInv, Ranked, TailsLast, WavesRanked, Beside
    <3> QED  BY <3>1, <3>4 DEF InLine
  <2>6. ProgressInv  BY DEF ProgressInv, Calls
  <2> QED  BY <2>1, <2>2, <2>3, <2>4, <2>5, <2>6 DEF WaveInv
<1>2. WaveInv /\ [Next]_vars => WaveInv'
  <2> SUFFICES ASSUME WaveInv, [Next]_vars PROVE WaveInv'
    OBVIOUS
  <2> QED
    BY WaveTypesNext, PartitionNext, StartedNext, RegistrationNext, InLineNext, ProgressNext DEF WaveInv
<1> QED  BY <1>1, <1>2, PTL DEF Spec

(* Two mutations inside the queue of one key are the same: both are first. *)
LEMMA OneInside ==
  ASSUME WaveInv, NEW i \in Ops, NEW j \in Ops, Beside(i, j), Inside(j)
  PROVE  (Inside(i) => i = j) /\ ~(waveOf[i] < waveOf[j])
<1>1. PICK r \in [Ops -> Nat] : LineInv(r)  BY DEF WaveInv, InLine
<1>2. r[j] <= r[i]  BY <1>1 DEF LineInv, Ranked
<1>3. Inside(i) => r[i] <= r[j]  BY <1>1 DEF LineInv, Ranked, Beside
<1>4. Inside(i) => i = j  BY <1>1, <1>2, <1>3 DEF LineInv, Ranked
<1>5. waveOf[i] < waveOf[j] => r[i] < r[j]  BY <1>1 DEF LineInv, WavesRanked
<1> QED  BY <1>2, <1>4, <1>5

(* Mutations of one file are never under way together (file-mutation-      *)
(* queue.ts), for every number of calls and every set of links, unless one *)
(* was queued under a link to a missing file.                              *)
THEOREM QueueExcludes == Spec => []MutationsExclusive
<1>1. WaveInv => MutationsExclusive
  <2> SUFFICES ASSUME WaveInv, NEW i \in Ops, NEW j \in Ops, i # j, Inside(i), Inside(j),
                      file(i) = file(j), i \notin unresolved, j \notin unresolved
               PROVE  FALSE
    BY DEF MutationsExclusive
  <2>1. Active(i) /\ Active(j)  BY DEF Inside, Active
  <2>2. key[i] = key[j]  BY <2>1 DEF WaveInv, StartedInv
  <2>3. Beside(i, j)  BY <2>1, <2>2 DEF Beside
  <2> QED  BY <2>3, OneInside
<1> QED  BY <1>1, WaveInvariant, PTL

(* The mutations of a file, under whichever names, keep the order of their *)
(* waves, although the wave executor does not wait for a tool that timed   *)
(* out: the calls of a wave enter the registration queue before those of   *)
(* the next, it keeps their order, and so does the chain of their key,     *)
(* which is the file unless that was missing.                              *)
THEOREM QueueKeepsWaveOrder == Spec => []MutationsInWaveOrder
<1>1. WaveInv => MutationsInWaveOrder
  <2> SUFFICES ASSUME WaveInv, NEW i \in Calls, NEW j \in Calls, waveOf[i] < waveOf[j],
                      file(i) = file(j), Mutates(i), Unfinished(i), Inside(j),
                      i \notin unresolved, j \notin unresolved
               PROVE  FALSE
    BY DEF MutationsInWaveOrder
  <2>1. i \in Ops /\ j \in Ops  BY WaveBatchAssumption
  <2>2. Active(j)  BY DEF Inside, Active
  <2>3. Registering(i) \/ Active(i)
    <3>1. stage[i] \in Stages /\ stage[i] # "running"
      BY <2>1 DEF WaveInv, WaveTypes, QueueTypes, StartedInv
    <3> QED  BY <3>1 DEF Unfinished, Stages, Registering, Active
  <2>4. CASE Registering(i)
    <3>1. waveOf[j] <= waveOf[i]  BY <2>1, <2>2, <2>4 DEF WaveInv, RegistrationInv
    <3>2. waveOf[i] \in Nat /\ waveOf[j] \in Nat  BY DEF WaveInv, WaveTypes, BatchTypes
    <3> QED  BY <3>1, <3>2
  <2>5. CASE Active(i)
    <3>1. key[i] = key[j]  BY <2>1, <2>2, <2>5 DEF WaveInv, StartedInv
    <3>2. Beside(i, j)  BY <2>2, <2>5, <3>1 DEF Beside
    <3> QED  BY <2>1, <3>2, OneInside
  <2> QED  BY <2>3, <2>4, <2>5
<1> QED  BY <1>1, WaveInvariant, PTL

(* A batch that was not aborted publishes one result per call in the       *)
(* model's order, an aborted one a beginning of that with at least one     *)
(* result, for every batch and every partition into waves.                 *)
THEOREM ResultsComplete == Spec => []WaveResultsComplete
<1>1. WaveInv => WaveResultsComplete
  <2> SUFFICES ASSUME WaveInv, phase = "ended"
               PROVE  /\ results = [k \in 1..Len(results) |-> k] /\ Len(results) > 0
                      /\ aborted \/ Len(results) = N
    BY DEF WaveResultsComplete
  <2>1. results \in Seq(Calls)  BY DEF WaveInv, WaveTypes, BatchTypes
  <2>2. \A k \in 1..Len(results) : results[k] = k  BY DEF WaveInv, ProgressInv
  <2>3. results = [k \in 1..Len(results) |-> results[k]]  BY <2>1
  <2>4. results = [k \in 1..Len(results) |-> k]  BY <2>2, <2>3
  <2> QED  BY <2>4 DEF WaveInv, ProgressInv
<1> QED  BY <1>1, WaveInvariant, PTL
================================================================================
