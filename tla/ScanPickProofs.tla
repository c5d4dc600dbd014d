---------------------------- MODULE ScanPickProofs ----------------------------
(* Proofs about ScanPick, for any credentials, readings and buffer size. *)
EXTENDS ScanPick, TLAPS

\* What is handed over is a list of records.
LEMMA RecordsTyped ==
  ASSUME NEW s \in Seq(Ap)
  PROVE  /\ Truncated(s) \in Seq(Record)
         /\ Unfilled \in Seq(Record)
<1> DEFINE n == IF Len(s) < ScanMaxAps THEN Len(s) ELSE ScanMaxAps
<1>1. n \in Nat /\ n <= Len(s)
  BY ScanAssumption
<1>2. Ap \subseteq Record
  BY ScanAssumption DEF Ap, Record
<1>3. \A i \in 1..n : s[i] \in Record
  BY <1>1, <1>2
<1>4. Truncated(s) = [i \in 1..n |-> s[i]]
  BY <1>1 DEF Truncated
<1>5. Truncated(s) \in Seq(Record)
  <2> HIDE DEF n
  <2> QED BY <1>1, <1>3, <1>4
<1>6. Blank \in Record
  BY DEF Blank, Record, INT8_MIN, INT8_MAX
<1>7. Unfilled \in Seq(Record)
  BY <1>6, ScanAssumption DEF Unfilled
<1> QED BY <1>5, <1>7

\* A scan finds a list of access points.
LEMMA AirTyped ==
  ASSUME NEW s \in InTheAir
  PROVE  s \in Seq(Ap)
<1>1. PICK n \in 0..MaxAir : s \in [1..n -> Ap]
  BY DEF InTheAir
<1> QED BY <1>1, ScanAssumption

\* A reading is a number of 8 bits.
LEMMA ReadingsBounded ==
  ASSUME TypeOK, NEW i \in 1..Len(aps)
  PROVE  aps[i].rssi \in INT8_MIN..INT8_MAX /\ aps[i].rssi \in Int
<1>1. aps[i] \in Record
  BY DEF TypeOK
<1>2. aps[i].rssi \in INT8_MIN..INT8_MAX
  BY <1>1 DEF Record
<1>3. INT8_MIN..INT8_MAX \subseteq Int
  BY DEF INT8_MIN, INT8_MAX
<1> QED BY <1>2, <1>3

\* Type correctness: the loop variables stay within their tables, and the
\* reading kept as the best one is a reading of 8 bits.
THEOREM ScanTypes == Spec => []TypeOK
<1>1. Init => TypeOK
  BY ScanAssumption DEF Init, TypeOK, Slots, NONE, INT8_MIN, INT8_MAX
<1>2. TypeOK /\ [Next]_vars => TypeOK'
  <2> SUFFICES ASSUME TypeOK, [Next]_vars PROVE TypeOK'
    OBVIOUS
  <2> USE ScanAssumption
  <2>1. CASE Scan
    <3>1. air' \in Seq(Ap)
      BY <2>1, AirTyped DEF Scan
    <3>2. aps' \in Seq(Record)
      BY <2>1, <3>1, RecordsTyped DEF Scan
    <3> QED BY <2>1, <3>1, <3>2 DEF Scan, TypeOK, NONE, INT8_MIN, INT8_MAX
  <2>2. CASE ScanFails
    BY <2>2 DEF ScanFails, TypeOK, NONE, INT8_MIN, INT8_MAX
  <2>3. CASE CompareRecord
    <3>1. ci \in Slots /\ ai \in 1..Len(aps)
      BY <2>3 DEF CompareRecord, TypeOK, Slots
    <3>2. aps[ai].rssi \in INT8_MIN..INT8_MAX
      BY <3>1, ReadingsBounded
    <3>3. best' \in Slots \cup {NONE} /\ bestRssi' \in INT8_MIN..INT8_MAX
      BY <2>3, <3>1, <3>2 DEF CompareRecord, TypeOK
    <3> QED BY <2>3, <3>1, <3>3 DEF CompareRecord, TypeOK
  <2>4. CASE NextCredential
    BY <2>4 DEF NextCredential, TypeOK
  <2>5. CASE Answer
    BY <2>5 DEF Answer, TypeOK
  <2>6. CASE StartConnect
    <3>1. best \in Slots
      BY <2>6 DEF StartConnect, TypeOK
    <3>2. joined' \in Ssids \cup {NoSsid, Cut}
      BY <2>6, <3>1 DEF StartConnect, Stored, Slots
    <3> QED BY <2>6, <3>2 DEF StartConnect, TypeOK
  <2>7. CASE NoKnownAp
    BY <2>7 DEF NoKnownAp, TypeOK
  <2>8. CASE UNCHANGED vars
    BY <2>8 DEF vars, TypeOK
  <2> QED BY <2>1, <2>2, <2>3, <2>4, <2>5, <2>6, <2>7, <2>8 DEF Next
<1> QED BY <1>1, <1>2, PTL DEF Spec

\* When the answer is there, the loops have been through every slot.
AllSlotsSeen == pc = "answered" => ci = CredCount

\* A step that leaves the tables and the best alone keeps the invariant if the
\* same pairs have been seen.
LEMMA SameSeen ==
  ASSUME BestOfSeen, Seen' = Seen, UNCHANGED <<aps, best, bestRssi>>
  PROVE  BestOfSeen'
BY DEF BestOfSeen

\* The loop invariant of scan_pick_best.
THEOREM ScanInvariant == Spec => [](BestOfSeen /\ AllSlotsSeen)
<1>1. Init => BestOfSeen /\ AllSlotsSeen
  BY ScanAssumption DEF Init, BestOfSeen, AllSlotsSeen, Seen, Matches, Slots
<1>2. TypeOK /\ BestOfSeen /\ AllSlotsSeen /\ [Next]_vars => (BestOfSeen /\ AllSlotsSeen)'
  <2> SUFFICES ASSUME TypeOK, BestOfSeen, AllSlotsSeen, [Next]_vars
               PROVE  BestOfSeen' /\ AllSlotsSeen'
    OBVIOUS
  <2> USE ScanAssumption
  <2>1. CASE Scan
    <3>1. Seen' = {}
      BY <2>1 DEF Scan, Seen, Matches, Slots
    <3> QED BY <2>1, <3>1 DEF Scan, BestOfSeen, AllSlotsSeen
  <2>2. CASE ScanFails
    <3>1. Seen' = {}
      BY <2>2 DEF ScanFails, Seen, Matches, Slots
    <3> QED BY <2>2, <3>1 DEF ScanFails, BestOfSeen, AllSlotsSeen
  <2>3. CASE CompareRecord
    <3> DEFINE here == <<ci, ai>>
    <3>1. ci \in Slots /\ ai \in 1..Len(aps) /\ aps' = aps /\ ci' = ci /\ ai' = ai + 1
      BY <2>3 DEF CompareRecord, TypeOK, Slots
    <3>2. Matches' = Matches
      BY <3>1 DEF Matches
    <3>3. \A p \in Matches : p \in Seen' <=> p \in Seen \/ p = here
      BY <3>1, <3>2 DEF Seen, Matches, Slots
    <3>4. Seen' \subseteq Matches /\ Seen \subseteq Matches
      BY <3>2 DEF Seen
    <3>5. \A p \in Seen : p[1] <= ci
      BY <3>1 DEF Seen, Matches, Slots
    <3>6. \A i \in 1..Len(aps) : aps[i].rssi \in Int
      BY ReadingsBounded
    <3>7. \A p \in Matches : p[1] \in Int /\ p[2] \in 1..Len(aps)
      BY DEF Matches, Slots
    <3>8. bestRssi \in Int /\ bestRssi >= INT8_MIN
      BY DEF TypeOK, INT8_MIN, INT8_MAX
    <3>9. AllSlotsSeen'
      BY <2>3 DEF CompareRecord, AllSlotsSeen
    <3>10. CASE aps[ai].ssid = Creds[ci] /\ Stronger(aps[ai])
      <4>1. best' = ci /\ bestRssi' = aps[ai].rssi /\ aps[ai].rssi > bestRssi
        BY <2>3, <3>10 DEF CompareRecord, Stronger
      <4>2. here \in Matches
        BY <2>3, <3>1, <3>6, <3>8, <3>10, <4>1 DEF CompareRecord, Matches, INT8_MIN
      <4>3. \A p \in Seen : aps[p[2]].rssi < aps[ai].rssi
        BY <3>1, <3>4, <3>6, <3>7, <3>8, <4>1 DEF BestOfSeen
      <4>4. best' # NONE
        BY <3>1, <4>1 DEF Slots, NONE
      <4>5. \E p \in Seen' : p[1] = best' /\ aps'[p[2]].rssi = bestRssi'
        <5>1. here \in Seen' /\ here[1] = best' /\ aps'[here[2]].rssi = bestRssi'
          BY <3>1, <3>3, <4>1, <4>2
        <5> QED BY <5>1
      <4>6. \A p \in Seen' : /\ aps'[p[2]].rssi <= bestRssi'
                             /\ p[1] < best' => aps'[p[2]].rssi < bestRssi'
        <5> SUFFICES ASSUME NEW p \in Seen'
                     PROVE  /\ aps[p[2]].rssi <= aps[ai].rssi
                            /\ p[1] < ci => aps[p[2]].rssi < aps[ai].rssi
          BY <3>1, <4>1
        <5>1. CASE p = here
          BY <3>1, <3>6, <5>1 DEF Slots
        <5>2. CASE p \in Seen
          BY <3>1, <3>4, <3>6, <3>7, <4>3, <5>2
        <5> QED BY <3>3, <3>4, <5>1, <5>2
      <4> QED BY <3>9, <4>4, <4>5, <4>6 DEF BestOfSeen
    <3>11. CASE ~(aps[ai].ssid = Creds[ci] /\ Stronger(aps[ai]))
      <4>1. UNCHANGED <<best, bestRssi>>
        BY <2>3, <3>11 DEF CompareRecord
      <4>2. CASE here \notin Matches
        BY <3>1, <3>3, <3>4, <3>9, <4>1, <4>2, SameSeen
      <4>3. CASE here \in Matches
        <5>1. aps[ai].ssid = Creds[ci] /\ aps[ai].rssi > INT8_MIN
          BY <4>3 DEF Matches
        <5>2. aps[ai].rssi <= bestRssi
          BY <3>1, <3>6, <3>8, <3>11, <5>1 DEF Stronger
        <5>3. best # NONE /\ best \in Slots
          BY <3>1, <3>6, <5>1, <5>2 DEF BestOfSeen, TypeOK, INT8_MIN
        <5>4. PICK q \in Seen : q[1] = best /\ aps[q[2]].rssi = bestRssi
          BY <5>3 DEF BestOfSeen
        <5>5. best <= ci
          BY <3>5, <5>4
        <5>6. q \in Seen'
          BY <3>3, <3>4
        <5>7. \A p \in Seen' : /\ aps[p[2]].rssi <= bestRssi
                               /\ p[1] < best => aps[p[2]].rssi < bestRssi
          BY <3>1, <3>3, <3>4, <5>2, <5>3, <5>5 DEF BestOfSeen, Slots
        <5>8. best' = best /\ bestRssi' = bestRssi /\ aps' = aps
          BY <3>1, <4>1
        <5>9. \E p \in Seen' : p[1] = best' /\ aps'[p[2]].rssi = bestRssi'
          BY <5>4, <5>6, <5>8
        <5>10. \A p \in Seen' : /\ aps'[p[2]].rssi <= bestRssi'
                                /\ p[1] < best' => aps'[p[2]].rssi < bestRssi'
          BY <5>7, <5>8
        <5>11. best' # NONE
          BY <5>3, <5>8
        <5> QED BY <3>9, <5>9, <5>10, <5>11 DEF BestOfSeen
      <4> QED BY <4>2, <4>3
    <3> QED BY <3>10, <3>11
  <2>4. CASE NextCredential
    <3>1. aps' = aps /\ ci' = ci + 1 /\ ai' = 1 /\ ci \in Slots
      BY <2>4 DEF NextCredential, TypeOK, Slots
    <3>2. Matches' = Matches
      BY <3>1 DEF Matches
    <3>3. Creds[ci] = NoSsid \/ \A a \in 1..Len(aps) : a < ai
      BY <2>4 DEF NextCredential, TypeOK
    <3>4. \A p \in Matches : p \in Seen' <=> p \in Seen
      BY <3>1, <3>2, <3>3 DEF Seen, Matches, Slots
    <3>5. Seen' = Seen
      BY <3>2, <3>4 DEF Seen
    <3>6. AllSlotsSeen'
      BY <2>4 DEF NextCredential, AllSlotsSeen
    <3> QED BY <2>4, <3>5, <3>6, SameSeen DEF NextCredential
  <2>5. CASE Answer
    <3>1. Seen' = Seen
      BY <2>5 DEF Answer, Seen, Matches
    <3> QED BY <2>5, <3>1, SameSeen DEF Answer, AllSlotsSeen
  <2>6. CASE StartConnect \/ NoKnownAp
    <3>1. Seen' = Seen
      BY <2>6 DEF StartConnect, NoKnownAp, Seen, Matches
    <3> QED BY <2>6, <3>1, SameSeen DEF StartConnect, NoKnownAp, AllSlotsSeen
  <2>7. CASE UNCHANGED vars
    <3>1. Seen' = Seen
      BY <2>7 DEF vars, Seen, Matches
    <3> QED BY <2>7, <3>1, SameSeen DEF vars, AllSlotsSeen
  <2> QED BY <2>1, <2>2, <2>3, <2>4, <2>5, <2>6, <2>7 DEF Next
<1> QED BY <1>1, <1>2, ScanTypes, PTL DEF Spec

\* The invariant itself, as the run checks it.
THEOREM BestSoFar == Spec => []BestOfSeen
BY ScanInvariant, PTL

\* The answer of scan_pick_best is the strongest known network among the
\* records it received, whatever their order and the configuration; it is none
\* only if there is none above -128.
THEOREM PicksStrongest == Spec => []AnswerIsStrongest
<1>1. TypeOK /\ BestOfSeen /\ AllSlotsSeen => AnswerIsStrongest
  <2> SUFFICES ASSUME TypeOK, BestOfSeen, AllSlotsSeen, pc = "answered"
               PROVE  /\ best = NONE => Matches = {}
                      /\ best # NONE =>
                           /\ Creds[best] # NoSsid
                           /\ \E i \in 1..Len(aps) :
                                /\ aps[i].ssid = Creds[best]
                                /\ \A p \in Matches :
                                     /\ aps[p[2]].rssi <= aps[i].rssi
                                     /\ p[1] < best => aps[p[2]].rssi < aps[i].rssi
    BY DEF AnswerIsStrongest
  <2>1. Seen = Matches
    BY ScanAssumption DEF Seen, Matches, Slots, AllSlotsSeen
  <2>2. CASE best = NONE
    BY <2>1, <2>2 DEF BestOfSeen
  <2>3. CASE best # NONE
    <3>1. PICK q \in Matches : q[1] = best /\ aps[q[2]].rssi = bestRssi
      BY <2>1, <2>3 DEF BestOfSeen
    <3>2. /\ Creds[best] # NoSsid /\ q[2] \in 1..Len(aps)
          /\ aps[q[2]].ssid = Creds[best]
      BY <3>1 DEF Matches
    <3>3. \A p \in Matches : /\ aps[p[2]].rssi <= aps[q[2]].rssi
                             /\ p[1] < best => aps[p[2]].rssi < aps[q[2]].rssi
      BY <2>1, <3>1 DEF BestOfSeen
    <3>4. \E i \in 1..Len(aps) :
            /\ aps[i].ssid = Creds[best]
            /\ \A p \in Matches :
                 /\ aps[p[2]].rssi <= aps[i].rssi
                 /\ p[1] < best => aps[p[2]].rssi < aps[i].rssi
      BY <3>2, <3>3
    <3> QED BY <2>3, <3>2, <3>4
  <2> QED BY <2>2, <2>3
<1> QED BY <1>1, ScanTypes, ScanInvariant, PTL

\* What the driver is told to join is the strongest known network of the scan:
\* the answer reaches it through start_connect unchanged or not at all.
THEOREM StrongestIsJoined == Spec => []JoinsStrongest
<1> USE ScanAssumption
<1>1. Init => JoinsStrongest
  BY DEF Init, JoinsStrongest
<1>2. TypeOK /\ AnswerIsStrongest /\ JoinsStrongest /\ [Next]_vars => JoinsStrongest'
  <2> SUFFICES ASSUME TypeOK, AnswerIsStrongest, JoinsStrongest, [Next]_vars,
                      pc' = "idle", best' # NONE, joined' \in Ssids
               PROVE  \E i \in 1..Len(aps') :
                        /\ aps'[i].ssid = joined'
                        /\ \A p \in Matches' : aps'[p[2]].rssi <= aps'[i].rssi
    BY DEF JoinsStrongest
  <2>1. CASE StartConnect
    <3>1. UNCHANGED <<aps, best>> /\ Matches' = Matches
      BY <2>1 DEF StartConnect, Matches
    <3>2. joined' = Creds[best]
      BY <2>1 DEF StartConnect, Stored
    <3>3. PICK i \in 1..Len(aps) : /\ aps[i].ssid = Creds[best]
                                   /\ \A p \in Matches : aps[p[2]].rssi <= aps[i].rssi
      BY <2>1, <3>1 DEF StartConnect, AnswerIsStrongest
    <3> QED BY <3>1, <3>2, <3>3
  <2>2. CASE NoKnownAp
    BY <2>2 DEF NoKnownAp
  <2>3. CASE Scan \/ ScanFails \/ CompareRecord \/ NextCredential \/ Answer
    BY <2>3 DEF Scan, ScanFails, CompareRecord, NextCredential, Answer, TypeOK
  <2>4. CASE UNCHANGED vars
    <3>1. UNCHANGED <<pc, aps, best, joined>> /\ Matches' = Matches
      BY <2>4 DEF vars, Matches
    <3> QED BY <3>1 DEF JoinsStrongest
  <2> QED BY <2>1, <2>2, <2>3, <2>4 DEF Next
<1> QED BY <1>1, <1>2, ScanTypes, PicksStrongest, PTL DEF Spec

\* The records are the first ones of the scan, or the array no one filled: the
\* air does not change behind the loops.
HandedOver == aps \in {Truncated(air), Unfilled}

\* An array that is large enough gets the whole scan.
LEMMA AllHandedOver ==
  ASSUME NEW s \in Seq(Ap), Len(s) <= ScanMaxAps
  PROVE  Truncated(s) = s
BY ScanAssumption DEF Truncated

LEMMA HandedOverKept == Spec => []HandedOver
<1>1. Init => HandedOver
  <2>1. Truncated(<<>>) = <<>>
    BY ScanAssumption DEF Truncated
  <2> QED BY <2>1 DEF Init, HandedOver
<1>2. HandedOver /\ [Next]_vars => HandedOver'
  <2> SUFFICES ASSUME HandedOver, [Next]_vars PROVE HandedOver'
    OBVIOUS
  <2> USE DEF HandedOver
  <2>1. CASE Scan
    BY <2>1 DEF Scan
  <2>2. CASE ScanFails
    <3>1. Truncated(<<>>) = <<>>
      BY ScanAssumption DEF Truncated
    <3> QED BY <2>2, <3>1 DEF ScanFails
  <2>3. CASE CompareRecord \/ NextCredential \/ Answer \/ StartConnect \/ NoKnownAp
    BY <2>3 DEF CompareRecord, NextCredential, Answer, StartConnect, NoKnownAp
  <2>4. CASE UNCHANGED vars
    BY <2>4 DEF vars
  <2> QED BY <2>1, <2>2, <2>3, <2>4 DEF Next
<1> QED BY <1>1, <1>2, PTL DEF Spec

\* What is joined is the strongest of what is there, not only of what was
\* recorded: as long as the air fits into the array and the records arrive, no
\* visible known network has a better reading than the one scan_pick_best kept.
THEOREM StrongestInTheAir == Spec => []StrongestVisible
<1>1. TypeOK /\ BestOfSeen /\ AllSlotsSeen /\ HandedOver => StrongestVisible
  <2> SUFFICES ASSUME TypeOK, BestOfSeen, AllSlotsSeen, HandedOver,
                      pc = "answered", Len(air) <= ScanMaxAps, aps # Unfilled,
                      NEW i \in KnownVisible
               PROVE  best # NONE /\ air[i].rssi <= bestRssi
    BY DEF StrongestVisible
  <2>1. aps = air
    BY AllHandedOver DEF HandedOver, TypeOK
  <2>2. i \in 1..Len(aps) /\ aps[i] \in Ap /\ aps[i].rssi > INT8_MIN
    BY <2>1 DEF KnownVisible, TypeOK
  <2>3. PICK c \in Slots : Creds[c] = aps[i].ssid
    BY <2>1 DEF KnownVisible
  <2>4. Creds[c] # NoSsid
    BY <2>2, <2>3, ScanAssumption DEF Ap
  <2>5. <<c, i>> \in Matches
    BY <2>2, <2>3, <2>4 DEF Matches
  <2>6. Seen = Matches
    BY ScanAssumption DEF Seen, Matches, Slots, AllSlotsSeen
  <2>7. aps[i].rssi <= bestRssi
    BY <2>5, <2>6 DEF BestOfSeen
  <2> QED BY <2>1, <2>5, <2>6, <2>7 DEF BestOfSeen
<1> QED BY <1>1, ScanTypes, ScanInvariant, HandedOverKept, PTL
=============================================================================
