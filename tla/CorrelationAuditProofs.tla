----------------------- MODULE CorrelationAuditProofs -----------------------
(***************************************************************************)
(* The tracker's one last failure per target, pruned as calls come, is a   *)
(* faithful summary of the whole history, for any window, threshold and    *)
(* sequence of calls.                                                      *)
(***************************************************************************)
EXTENDS CorrelationAudit, FiniteSetTheorems, TLAPS

Calls == [at : Nat, target : Targets \cup {NoTarget}, event : Nat]

AuditTypeOK ==
  /\ TrackerTypeOK
  /\ IsFiniteSet(Recorded)
  /\ log \in Seq(Calls)

\* The clock does not go back.
LogIsOrdered ==
  /\ \A i \in 1 .. Len(log) : log[i].at <= now
  /\ \A i, j \in 1 .. Len(log) : i <= j => log[i].at <= log[j].at

\* Call c is the last one the tracker counted.
IsLatest(c) == c \in Counted /\ \A i \in Counted : i <= c

\* The map holds the targets that failed within the window of the last counted
\* call, each with its last failure, and the flag says whether they reached the
\* threshold.
MapSummarizesLog ==
  /\ Counted = {} => Recorded = {} /\ ~emitted
  /\ Counted # {} => \E c \in Counted : IsLatest(c)
  /\ \A c \in Counted : IsLatest(c) =>
       /\ Recorded = FailingAt(c)
       /\ emitted <=> Cardinality(FailingAt(c)) >= Threshold
  /\ \A t \in Recorded :
       /\ \E j \in Counted : log[j].target = t /\ log[j].at = failures[t]
       /\ \A j \in Counted : log[j].target = t => log[j].at <= failures[t]

AuditInv == AuditTypeOK /\ LogIsOrdered /\ MapSummarizesLog /\ EventsMatchHistory

----------------------------------------------------------------------------

\* A counted failure leaves a finite map of profiles.
LEMMA ObserveKeepsTypes ==
  ASSUME TrackerTypeOK, IsFiniteSet(Recorded), NEW t \in Targets \cup {NoTarget}, ObserveFailure(t)
  PROVE  TrackerTypeOK' /\ IsFiniteSet(Recorded')
<1> USE DEF TrackerTypeOK, Recorded
<1>1. CASE Ignored(t)
  BY <1>1 DEF ObserveFailure
<1>2. CASE ~Ignored(t)
  <2> DEFINE failing == Kept \cup {t}
             at(u) == IF u = t THEN now ELSE failures[u]
  <2>1. IsFiniteSet(failing) /\ failing \subseteq Targets
    BY <1>2, FS_Subset, FS_AddElement DEF Kept, Ignored
  <2>2. Cardinality(failing) \in Nat
    BY <2>1, FS_CardinalityType
  <2>3. failures' = [u \in failing |-> at(u)] /\ now' = now
        /\ event' \in {Cardinality(failing), 0} /\ emitted' \in BOOLEAN
    BY <1>2 DEF ObserveFailure, EpisodeContinues
  <2>4. \A u \in failing : at(u) \in 0 .. now
    BY DEF Kept
  <2> HIDE DEF failing, at
  <2>5. DOMAIN failures' = failing /\ failures' \in [failing -> 0 .. now]
    BY <2>3, <2>4
  <2>6. QED
    BY <2>1, <2>2, <2>3, <2>5
<1>3. QED
  BY <1>1, <1>2

\* The call that is being added, and the rest of the log.
LEMMA LogGrows ==
  ASSUME AuditTypeOK, NEW t \in Targets \cup {NoTarget}, Observe(t)
  PROVE  /\ AuditTypeOK'
         /\ Len(log) \in Nat /\ Len(log') = Len(log) + 1
         /\ \A i \in 1 .. Len(log) : log'[i] = log[i]
         /\ log'[Len(log')] = [at |-> now, target |-> t, event |-> event']
         /\ now' = now
<1> DEFINE e == [at |-> now, target |-> t, event |-> event']
<1>1. TrackerTypeOK' /\ IsFiniteSet(Recorded')
  BY ObserveKeepsTypes DEF AuditTypeOK, Observe
<1>2. e \in Calls
  BY <1>1 DEF Calls, AuditTypeOK, TrackerTypeOK
<1>3. log' = Append(log, e) /\ log \in Seq(Calls)
  BY DEF Observe, AuditTypeOK
<1> HIDE DEF e
<1>4. /\ log' \in Seq(Calls) /\ Len(log) \in Nat /\ Len(log') = Len(log) + 1
      /\ \A i \in 1 .. Len(log) : log'[i] = log[i]
      /\ log'[Len(log')] = e
  BY <1>2, <1>3
<1>5. now' = now
  BY DEF Observe, ObserveFailure
<1>6. QED
  BY <1>1, <1>4, <1>5 DEF AuditTypeOK, e

\* What the log says of its calls stays so as it grows.
LEMMA OldCallsStay ==
  ASSUME AuditTypeOK, NEW t \in Targets \cup {NoTarget}, Observe(t)
  PROVE  /\ \A i \in 1 .. Len(log) : i \in Counted' <=> i \in Counted
         /\ \A i \in 1 .. Len(log) : FailingAt(i)' = FailingAt(i)
         /\ \A i \in 1 .. Len(log) : OpensEpisode(i)' <=> OpensEpisode(i)
<1> DEFINE n == Len(log)
<1>1. /\ n \in Nat /\ Len(log') = n + 1
      /\ \A i \in 1 .. n : log'[i] = log[i]
  BY LogGrows
<1> HIDE DEF n
<1>2. ASSUME NEW i \in 1 .. n PROVE i \in Counted' <=> i \in Counted
  BY <1>1, <1>2 DEF Counted, n
<1>3. ASSUME NEW i \in 1 .. n PROVE FailingAt(i)' = FailingAt(i)
  <2>1. \A j \in 1 .. i : j \in 1 .. n /\ log'[j] = log[j]
    BY <1>1, <1>3
  <2>2. log'[i] = log[i]
    BY <1>1, <1>3
  <2>3. QED
    BY <2>1, <2>2 DEF FailingAt
<1>4. ASSUME NEW j \in 1 .. n PROVE OpensEpisode(j)' <=> OpensEpisode(j)
  <2>1. ASSUME NEW i \in Int, i < j
        PROVE  (i \in Counted' <=> i \in Counted) /\ (IsPredecessor(i, j)' <=> IsPredecessor(i, j))
    <3>1. \A m \in Int : i <= m /\ m < j => (m \in Counted' <=> m \in Counted)
      BY <1>1, <1>2, <1>4, <2>1 DEF Counted, n
    <3>2. \A m \in Counted : m \in Int
      BY <1>1 DEF Counted, n
    <3>3. \A m \in Counted' : m \in Int
      BY <1>1 DEF Counted, n
    <3>4. QED
      BY <2>1, <3>1, <3>2, <3>3, <1>4, <1>1 DEF IsPredecessor
  <2>2. \A i \in Counted \cup Counted' : i \in Int
    BY <1>1 DEF Counted, n
  <2>3. \A i : (IsPredecessor(i, j) => i < j) /\ (IsPredecessor(i, j)' => i < j)
    BY DEF IsPredecessor
  <2>4. \A i : (i \in Counted' /\ IsPredecessor(i, j)') <=> (i \in Counted /\ IsPredecessor(i, j))
    BY <2>1, <2>2, <2>3
  <2>5. \A i \in Counted : IsPredecessor(i, j) => FailingAt(i)' = FailingAt(i)
    BY <1>3 DEF Counted, n
  <2>6. QED
    BY <1>3, <2>4, <2>5 DEF OpensEpisode
<1>5. QED
  BY <1>2, <1>3, <1>4 DEF n

\* The new call comes last in time as well.
LEMMA LogStaysOrdered ==
  ASSUME AuditTypeOK, LogIsOrdered, NEW t \in Targets \cup {NoTarget}, Observe(t)
  PROVE  LogIsOrdered'
<1>1. PICK n \in Nat : n = Len(log)
  BY LogGrows
<1>2. /\ Len(log') = n + 1 /\ now' = now /\ now \in Nat
      /\ \A i \in 1 .. n : log'[i] = log[i] /\ log[i] \in Calls
      /\ log'[n + 1].at = now
  <2>1. \A i \in 1 .. n : log[i] \in Calls
    BY <1>1 DEF AuditTypeOK
  <2>2. /\ Len(log') = n + 1 /\ now' = now
        /\ \A i \in 1 .. n : log'[i] = log[i]
        /\ log'[n + 1] = [at |-> now, target |-> t, event |-> event']
    BY <1>1, LogGrows
  <2>3. now \in Nat
    BY DEF AuditTypeOK, TrackerTypeOK
  <2>4. QED
    BY <2>1, <2>2, <2>3
<1>3. \A i \in 1 .. n + 1 : i \in 1 .. n \/ i = n + 1
  BY <1>1
<1>4. \A i \in 1 .. n + 1 : log'[i].at <= now
  BY <1>1, <1>2, <1>3 DEF LogIsOrdered, Calls
<1>5. ASSUME NEW i \in 1 .. n + 1, NEW j \in 1 .. n + 1, i <= j PROVE log'[i].at <= log'[j].at
  <2>1. CASE j = n + 1
    BY <1>2, <1>4, <2>1
  <2>2. CASE j \in 1 .. n
    BY <1>1, <1>2, <1>5, <2>2 DEF LogIsOrdered
  <2>3. QED
    BY <1>3, <2>1, <2>2
<1>6. QED
  BY <1>2, <1>4, <1>5 DEF LogIsOrdered

\* A call that names no target, or meets a disabled tracker, is not counted.
LEMMA IgnoredKeepsInv ==
  ASSUME AuditInv, NEW t \in Targets \cup {NoTarget}, Observe(t), Ignored(t)
  PROVE  AuditInv'
<1>0. PICK n \in Nat : n = Len(log)
  BY LogGrows DEF AuditInv
<1>1. /\ n \in Nat /\ Len(log') = n + 1
      /\ \A i \in 1 .. n : log'[i] = log[i]
      /\ log'[n + 1] = [at |-> now, target |-> t, event |-> event']
      /\ now' = now /\ AuditTypeOK'
  BY <1>0, LogGrows DEF AuditInv
<1>2. /\ \A i \in 1 .. n : i \in Counted' <=> i \in Counted
      /\ \A i \in 1 .. n : FailingAt(i)' = FailingAt(i)
      /\ \A i \in 1 .. n : OpensEpisode(i)' <=> OpensEpisode(i)
  BY <1>0, OldCallsStay DEF AuditInv
<1>3. event' = 0 /\ failures' = failures /\ emitted' = emitted
  BY DEF Observe, ObserveFailure
<1>4. n + 1 \notin Counted'
  BY <1>1 DEF Counted, Ignored, Enabled
<1>5. Counted' = Counted
  BY <1>0, <1>1, <1>2, <1>4 DEF Counted
<1>6. \A i \in Counted : i \in 1 .. n
  BY <1>0 DEF Counted
<1>7. LogIsOrdered'
  BY LogStaysOrdered DEF AuditInv
<1>8. MapSummarizesLog'
  <2>1. \A c : IsLatest(c)' <=> IsLatest(c)
    BY <1>5 DEF IsLatest
  <2>2. \A j \in Counted : log'[j] = log[j] /\ FailingAt(j)' = FailingAt(j)
    BY <1>1, <1>2, <1>6
  <2>3. QED
    BY <1>3, <1>5, <2>1, <2>2 DEF AuditInv, MapSummarizesLog, Recorded, IsLatest
<1>9. EventsMatchHistory'
  <2>1. ASSUME NEW j \in 1 .. n
        PROVE  log'[j].event = IF j \in Counted' /\ OpensEpisode(j)' THEN Cardinality(FailingAt(j)') ELSE 0
    BY <1>0, <1>1, <1>2 DEF AuditInv, EventsMatchHistory
  <2>2. log'[n + 1].event = IF n + 1 \in Counted' /\ OpensEpisode(n + 1)'
                            THEN Cardinality(FailingAt(n + 1)') ELSE 0
    BY <1>1, <1>3, <1>4
  <2>3. QED
    BY <1>1, <2>1, <2>2 DEF EventsMatchHistory
<1>10. QED
  BY <1>1, <1>7, <1>8, <1>9 DEF AuditInv

\* What a counted call leaves in the map is what the window over the whole
\* history holds.
LEMMA MapIsTheWindow ==
  ASSUME AuditInv, NEW t \in Targets \cup {NoTarget}, Observe(t), ~Ignored(t),
         NEW n \in Nat, n = Len(log)
  PROVE  FailingAt(n + 1)' = Kept \cup {t}
<1>1. /\ n \in Nat /\ Len(log') = n + 1
      /\ \A i \in 1 .. n : log'[i] = log[i]
      /\ log'[n + 1] = [at |-> now, target |-> t, event |-> event']
      /\ now \in Nat /\ log \in Seq(Calls)
  BY LogGrows DEF AuditInv, AuditTypeOK, TrackerTypeOK
<1>2. Enabled /\ t # NoTarget /\ Window \in Nat
  BY TrackerAssumption DEF Ignored
<1>3. \A j \in 1 .. n : log[j].at \in Nat
  <2>1. \A j \in 1 .. n : log[j] \in Calls
    BY <1>1
  <2>2. QED
    BY <2>1 DEF Calls
<1>4. \A j \in 1 .. n + 1 : j = n + 1 \/ j \in 1 .. n
  BY <1>1
<1>5. t \in FailingAt(n + 1)'
  <2>1. n + 1 \in 1 .. n + 1 /\ log'[n + 1].target = t /\ log'[n + 1].at - log'[n + 1].at <= Window
    BY <1>1, <1>2
  <2>2. QED
    BY <1>2, <2>1 DEF FailingAt
<1>6. ASSUME NEW u \in FailingAt(n + 1)', u # t PROVE u \in Kept
  <2>1. PICK j \in 1 .. n + 1 : /\ u = log'[j].target /\ log'[j].target # NoTarget
                                /\ log'[n + 1].at - log'[j].at <= Window
    BY <1>6 DEF FailingAt
  <2>2. j \in 1 .. n /\ u = log[j].target /\ u # NoTarget /\ now - log[j].at <= Window
    BY <1>1, <1>4, <1>6, <2>1
  <2>3. j \in Counted
    BY <1>2, <2>2 DEF Counted
  <2>4. PICK c \in Counted : IsLatest(c)
    BY <2>3 DEF AuditInv, MapSummarizesLog
  <2>5. c \in 1 .. n /\ j <= c /\ log[c].at <= now
    BY <2>3, <2>4 DEF IsLatest, Counted, AuditInv, LogIsOrdered
  <2>6. log[c].at - log[j].at <= Window
    BY <1>1, <1>2, <1>3, <2>2, <2>5
  <2>7. u \in FailingAt(c)
    BY <1>1, <2>2, <2>5, <2>6 DEF FailingAt
  <2>8. u \in Recorded
    BY <2>4, <2>7 DEF AuditInv, MapSummarizesLog
  <2>9. log[j].at <= failures[u] /\ failures[u] \in 0 .. now
    BY <2>2, <2>3, <2>8 DEF AuditInv, MapSummarizesLog, AuditTypeOK, TrackerTypeOK
  <2>10. now - failures[u] <= Window
    BY <1>1, <1>2, <1>3, <2>2, <2>9
  <2>11. QED
    BY <2>8, <2>10 DEF Kept
<1>7. ASSUME NEW u \in Kept PROVE u \in FailingAt(n + 1)'
  <2>1. PICK j \in Counted : log[j].target = u /\ log[j].at = failures[u]
    BY <1>7 DEF Kept, AuditInv, MapSummarizesLog
  <2>2. j \in 1 .. n + 1 /\ log'[j] = log[j] /\ u # NoTarget
    BY <1>1, <2>1 DEF Counted
  <2>3. log'[n + 1].at - log'[j].at <= Window
    BY <1>1, <1>7, <2>1, <2>2 DEF Kept
  <2>4. QED
    BY <2>1, <2>2, <2>3 DEF FailingAt
<1>8. QED
  BY <1>5, <1>6, <1>7

\* A counted call becomes the latest, and the map and the flag follow it.
LEMMA CountedKeepsInv ==
  ASSUME AuditInv, NEW t \in Targets \cup {NoTarget}, Observe(t), ~Ignored(t)
  PROVE  AuditInv'
<1>0. PICK n \in Nat : n = Len(log)
  BY LogGrows DEF AuditInv
<1>1. /\ Len(log') = n + 1
      /\ \A i \in 1 .. n : log'[i] = log[i]
      /\ log'[n + 1] = [at |-> now, target |-> t, event |-> event']
      /\ now' = now /\ now \in Nat /\ AuditTypeOK'
  BY <1>0, LogGrows DEF AuditInv, AuditTypeOK, TrackerTypeOK
<1>2. /\ \A i \in 1 .. n : i \in Counted' <=> i \in Counted
      /\ \A i \in 1 .. n : FailingAt(i)' = FailingAt(i)
      /\ \A i \in 1 .. n : OpensEpisode(i)' <=> OpensEpisode(i)
  BY <1>0, OldCallsStay DEF AuditInv
<1>3. PICK failing : failing = Kept \cup {t}
  OBVIOUS
<1>4. FailingAt(n + 1)' = failing
  BY <1>0, <1>3, MapIsTheWindow
<1>5. PICK count : count = Cardinality(failing)
  OBVIOUS
<1>6. /\ DOMAIN failures' = failing
      /\ \A u \in failing : failures'[u] = IF u = t THEN now ELSE failures[u]
      /\ event' = IF count >= Threshold /\ ~(IF count < Threshold THEN FALSE ELSE emitted) THEN count ELSE 0
      /\ emitted' = (count >= Threshold \/ (IF count < Threshold THEN FALSE ELSE emitted))
      /\ Enabled /\ t # NoTarget
  BY <1>3, <1>5 DEF Observe, ObserveFailure, EpisodeContinues, Ignored
<1>7. count \in Nat /\ Threshold \in Nat /\ emitted \in BOOLEAN
  <2>1. IsFiniteSet(DOMAIN failures')
    BY <1>1 DEF AuditTypeOK, Recorded
  <2>2. QED
    BY <1>5, <1>6, <2>1, FS_CardinalityType, TrackerAssumption DEF AuditInv, AuditTypeOK, TrackerTypeOK
<1>8. /\ emitted' <=> count >= Threshold
      /\ event' = IF count >= Threshold /\ ~emitted THEN count ELSE 0
  <2>1. CASE count >= Threshold
    <3>1. ~(count < Threshold)
      BY <1>7, <2>1
    <3>2. QED
      BY <1>6, <2>1, <3>1, Zenon
  <2>2. CASE ~(count >= Threshold)
    <3>1. count < Threshold
      BY <1>7, <2>2
    <3>2. QED
      BY <1>6, <2>2, <3>1, Zenon
  <2>3. QED
    BY <2>1, <2>2
<1>9. /\ n + 1 \in Counted'
      /\ \A i \in Counted : i \in 1 .. n /\ i \in Counted'
      /\ \A i \in Counted' : i = n + 1 \/ (i \in 1 .. n /\ i \in Counted)
  <2>1. \A i \in Counted : i \in 1 .. n
    BY <1>0 DEF Counted
  <2>2. n + 1 \in Counted'
    BY <1>1, <1>6 DEF Counted, Enabled
  <2>3. \A i \in Counted' : i = n + 1 \/ i \in 1 .. n
    BY <1>1 DEF Counted
  <2>4. QED
    BY <1>2, <2>1, <2>2, <2>3
<1>10. IsLatest(n + 1)' /\ \A c : IsLatest(c)' => c = n + 1
  BY <1>9 DEF IsLatest
<1>11. LogIsOrdered'
  BY LogStaysOrdered DEF AuditInv
<1>12. ASSUME NEW u \in failing
       PROVE  /\ \E j \in Counted' : log'[j].target = u /\ log'[j].at = failures'[u]
              /\ \A j \in Counted' : log'[j].target = u => log'[j].at <= failures'[u]
  <2>1. CASE u = t
    <3>1. failures'[u] = now
      BY <1>6, <2>1
    <3>2. \A j \in Counted' : log'[j].at <= now
      BY <1>1, <1>11 DEF LogIsOrdered, Counted
    <3>3. QED
      BY <1>1, <1>9, <2>1, <3>1, <3>2
  <2>2. CASE u # t
    <3>1. failures'[u] = failures[u] /\ u \in Recorded
      BY <1>3, <1>6, <2>2 DEF Kept
    <3>2. PICK j \in Counted : log[j].target = u /\ log[j].at = failures[u]
      BY <3>1 DEF AuditInv, MapSummarizesLog
    <3>3. \A i \in Counted : log[i].target = u => log[i].at <= failures[u]
      BY <3>1 DEF AuditInv, MapSummarizesLog
    <3>4. \A i \in Counted : log'[i] = log[i]
      BY <1>1, <1>9
    <3>5. log'[n + 1].target # u
      BY <1>1, <2>2
    <3>6. QED
      BY <1>9, <3>1, <3>2, <3>3, <3>4, <3>5
  <2>3. QED
    BY <2>1, <2>2
<1>13. MapSummarizesLog'
  BY <1>4, <1>5, <1>6, <1>8, <1>9, <1>10, <1>12 DEF MapSummarizesLog, Recorded
<1>14. ~emitted <=> \A i \in Counted' : IsPredecessor(i, n + 1)' => Cardinality(FailingAt(i)') < Threshold
  <2>1. \A i : (i \in Counted' /\ IsPredecessor(i, n + 1)') <=> IsLatest(i)
    BY <1>0, <1>9 DEF IsLatest, IsPredecessor
  <2>2. \A i \in Counted : FailingAt(i)' = FailingAt(i)
    BY <1>2, <1>9
  <2>3. ASSUME NEW i, IsLatest(i)
        PROVE  (emitted <=> Cardinality(FailingAt(i)) >= Threshold) /\ Cardinality(FailingAt(i)) \in Nat
    <3>1. i \in Counted /\ FailingAt(i) = Recorded
      BY <2>3 DEF IsLatest, AuditInv, MapSummarizesLog
    <3>2. Cardinality(FailingAt(i)) \in Nat
      BY <3>1, FS_CardinalityType DEF AuditInv, AuditTypeOK
    <3>3. QED
      BY <2>3, <3>1, <3>2 DEF AuditInv, MapSummarizesLog
  <2>4. CASE Counted = {}
    BY <2>1, <2>4 DEF IsLatest, AuditInv, MapSummarizesLog
  <2>5. CASE Counted # {}
    <3>1. PICK c \in Counted : IsLatest(c)
      BY <2>5 DEF AuditInv, MapSummarizesLog
    <3>2. \A i : IsLatest(i) => i = c
      BY <1>9, <3>1 DEF IsLatest
    <3>3. QED
      BY <1>7, <2>1, <2>2, <2>3, <3>1, <3>2
  <2>6. QED
    BY <2>4, <2>5
<1>15. EventsMatchHistory'
  <2>1. ASSUME NEW j \in 1 .. n
        PROVE  log'[j].event = IF j \in Counted' /\ OpensEpisode(j)' THEN Cardinality(FailingAt(j)') ELSE 0
    BY <1>0, <1>1, <1>2 DEF AuditInv, EventsMatchHistory
  <2>2. OpensEpisode(n + 1)' <=> count >= Threshold /\ ~emitted
    BY <1>4, <1>5, <1>14 DEF OpensEpisode
  <2>3. log'[n + 1].event = IF n + 1 \in Counted' /\ OpensEpisode(n + 1)'
                            THEN Cardinality(FailingAt(n + 1)') ELSE 0
    BY <1>1, <1>4, <1>5, <1>8, <1>9, <2>2
  <2>4. QED
    BY <1>1, <2>1, <2>3 DEF EventsMatchHistory
<1>16. QED
  BY <1>1, <1>11, <1>13, <1>15 DEF AuditInv

\* What the log says stays so while it does not grow.
LEMMA SameLogSaysTheSame ==
  ASSUME AuditInv, log' = log, failures' = failures, emitted' = emitted
  PROVE  MapSummarizesLog' /\ EventsMatchHistory'
<1>1. Counted' = Counted /\ Recorded' = Recorded
  BY DEF Counted, Recorded
<1>2. \A i : FailingAt(i)' = FailingAt(i)
  BY DEF FailingAt
<1>3. \A c : IsLatest(c)' <=> IsLatest(c)
  BY <1>1 DEF IsLatest
<1>4. \A i, j : IsPredecessor(i, j)' <=> IsPredecessor(i, j)
  BY <1>1 DEF IsPredecessor
<1>5. \A j : OpensEpisode(j)' <=> OpensEpisode(j)
  BY <1>1, <1>2, <1>4 DEF OpensEpisode
<1>6. MapSummarizesLog'
  BY <1>1, <1>2, <1>3 DEF AuditInv, MapSummarizesLog
<1>7. EventsMatchHistory'
  BY <1>1, <1>2, <1>5 DEF AuditInv, EventsMatchHistory
<1>8. QED
  BY <1>6, <1>7

LEMMA AdvanceKeepsInv ==
  ASSUME AuditInv, Advance
  PROVE  AuditInv'
<1>1. now' = now + 1 /\ failures' = failures /\ emitted' = emitted /\ event' = event /\ log' = log
      /\ now \in Nat
  BY DEF Advance, Tick, AuditInv, AuditTypeOK, TrackerTypeOK
<1>2. AuditTypeOK'
  BY <1>1 DEF AuditInv, AuditTypeOK, TrackerTypeOK, Recorded
<1>3. \A i \in 1 .. Len(log) : log[i] \in Calls
  BY DEF AuditInv, AuditTypeOK
<1>4. LogIsOrdered'
  BY <1>1, <1>3 DEF AuditInv, LogIsOrdered, Calls
<1>5. QED
  BY <1>1, <1>2, <1>4, SameLogSaysTheSame DEF AuditInv

LEMMA AuditInvHolds == AuditSpec => []AuditInv
<1>1. AuditInit => AuditInv
  <2> SUFFICES ASSUME AuditInit PROVE AuditInv
    OBVIOUS
  <2>1. log = <<>> /\ Len(log) = 0 /\ Recorded = {} /\ ~emitted
    BY DEF AuditInit, TrackerInit, Recorded
  <2>2. AuditTypeOK
    <3>1. TrackerTypeOK
      BY <2>1 DEF AuditInit, TrackerInit, TrackerTypeOK, Recorded
    <3>2. IsFiniteSet(Recorded)
      BY <2>1, FS_EmptySet
    <3>3. log \in Seq(Calls)
      BY <2>1
    <3>4. QED
      BY <3>1, <3>2, <3>3 DEF AuditTypeOK
  <2>3. Counted = {}
    BY <2>1 DEF Counted
  <2>4. QED
    BY <2>1, <2>2, <2>3 DEF AuditInv, LogIsOrdered, MapSummarizesLog, EventsMatchHistory
<1>2. ASSUME AuditInv, [AuditNext]_auditVars PROVE AuditInv'
  <2>1. ASSUME NEW t \in Targets \cup {NoTarget}, Observe(t) PROVE AuditInv'
    BY <1>2, <2>1, IgnoredKeepsInv, CountedKeepsInv
  <2>2. CASE UNCHANGED auditVars
    BY <1>2, <2>2, SameLogSaysTheSame
       DEF auditVars, trackerVars, AuditInv, AuditTypeOK, TrackerTypeOK, LogIsOrdered, Recorded
  <2>3. QED
    BY <1>2, <2>1, <2>2, AdvanceKeepsInv DEF AuditNext
<1>3. QED
  BY <1>1, <1>2, PTL DEF AuditSpec

\* One last failure per target, pruned as calls come, is enough: for any window,
\* threshold and history, each call returns the event that a window over the
\* whole history calls for, once per episode and with its number of targets.
THEOREM TrackerSummarizesHistory == AuditSpec => []EventsMatchHistory
<1>1. AuditInv => EventsMatchHistory
  BY DEF AuditInv
<1>2. QED
  BY <1>1, AuditInvHolds, PTL

\* The map holds profiles only, each with a time that has passed.
THEOREM TrackerTypes == AuditSpec => []TrackerTypeOK
<1>1. AuditInv => TrackerTypeOK
  BY DEF AuditInv, AuditTypeOK
<1>2. QED
  BY <1>1, AuditInvHolds, PTL
=============================================================================
