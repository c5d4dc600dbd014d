------------------------------- MODULE ScanPick -------------------------------
(***************************************************************************)
(* scan_pick_best and start_connect of wifi_manager.cpp: one scan, the     *)
(* comparison of every configured network with every record the driver     *)
(* hands over, and the request to join the winner.  WifiManager stands for *)
(* this module by the set of its possible answers.                         *)
(*                                                                         *)
(* A name is a model value; a reading is an 8-bit signed integer, as in    *)
(* wifi_ap_record_t.  The driver is external: it keeps any number of       *)
(* records and hands over the first ScanMaxAps of them.                    *)
(***************************************************************************)
EXTENDS Integers, Sequences

CONSTANTS
  CredCount,      \* CRED_COUNT
  Creds,          \* s_creds: slot -> name, NoSsid for a slot left empty
  Ssids,          \* names in the air
  NoSsid,         \* the empty string
  LongNames,      \* the names of 32 characters, the longest there are
  Cut,            \* what is left of such a name in a buffer of 32 bytes
  Readings,       \* rssi values that occur
  ScanMaxAps,     \* SCAN_MAX_APS
  MaxAir          \* bound: access points in the air

INT8_MIN == -128
INT8_MAX == 127
NONE == -1

ASSUME ScanAssumption ==
  /\ CredCount \in Nat /\ ScanMaxAps \in Nat \ {0} /\ MaxAir \in Nat
  /\ Creds \in [0..CredCount - 1 -> Ssids \cup {NoSsid}]
  /\ NoSsid \notin Ssids /\ Cut \notin Ssids /\ LongNames \subseteq Ssids
  /\ Readings \subseteq INT8_MIN..INT8_MAX

VARIABLES
  pc,        \* "idle", "pick" in the loops, "answered"
  air,       \* the access points of the last scan
  aps,       \* the records received
  ci, ai,    \* loop variables (aps counts from 1)
  best,      \* best_cred
  bestRssi,  \* best_rssi
  joined     \* the name the driver has been asked to join, NoSsid if it refused

vars == <<pc, air, aps, ci, ai, best, bestRssi, joined>>

Slots == 0..CredCount - 1
Ap == [ssid : Ssids, rssi : Readings]
Record == [ssid : Ssids \cup {NoSsid}, rssi : INT8_MIN..INT8_MAX]
Blank == [ssid |-> NoSsid, rssi |-> 0]

TypeOK ==
  /\ pc \in {"idle", "pick", "answered"}
  /\ air \in Seq(Ap)
  /\ aps \in Seq(Record)
  /\ ci \in 0..CredCount /\ ai \in 1..Len(aps) + 1
  /\ best \in Slots \cup {NONE} /\ bestRssi \in INT8_MIN..INT8_MAX
  /\ joined \in Ssids \cup {NoSsid, Cut}

Init ==
  /\ pc = "idle"
  /\ air = <<>> /\ aps = <<>>
  /\ ci = 0 /\ ai = 1
  /\ best = NONE /\ bestRssi = INT8_MIN
  /\ joined = NoSsid

-----------------------------------------------------------------------------
(* What the driver hands over *)

InTheAir == UNION {[1..n -> Ap] : n \in 0..MaxAir}

\* Mutant of Truncated: the last place of the array is never used.
TruncatedShort(s) ==
  SubSeq(s, 1, IF Len(s) < ScanMaxAps THEN Len(s) ELSE ScanMaxAps - 1)

Truncated(s) ==
  SubSeq(s, 1, IF Len(s) < ScanMaxAps THEN Len(s) ELSE ScanMaxAps)

\* esp_wifi_scan_get_ap_records is not checked: when it fails, count and the
\* zeroed array stay as they are.
Unfilled == [i \in 1..ScanMaxAps |-> Blank]

-----------------------------------------------------------------------------
(* scan_pick_best *)

\* Mutant of Scan: the best of the last scan is still there, as it would be
\* with static variables.
ScanKeepsBest ==
  /\ pc = "idle"
  /\ air' \in InTheAir
  /\ aps' \in {Truncated(air'), Unfilled}
  /\ pc' = "pick" /\ ci' = 0 /\ ai' = 1
  /\ UNCHANGED <<best, bestRssi, joined>>

Scan ==
  /\ pc = "idle"
  /\ air' \in InTheAir
  /\ aps' \in {Truncated(air'), Unfilled}
  /\ pc' = "pick" /\ ci' = 0 /\ ai' = 1
  /\ best' = NONE /\ bestRssi' = INT8_MIN
  /\ UNCHANGED joined

\* esp_wifi_scan_start failed.
ScanFails ==
  /\ pc = "idle"
  /\ air' = <<>> /\ aps' = <<>> /\ ci' = CredCount /\ ai' = 1
  /\ best' = NONE /\ bestRssi' = INT8_MIN
  /\ pc' = "answered"
  /\ UNCHANGED joined

\* Mutant of Stronger: of two equal readings the later one wins.
StrongerOrEqual(a) == a.rssi >= bestRssi

Stronger(a) == a.rssi > bestRssi

CompareRecord ==
  /\ pc = "pick" /\ ci < CredCount
  /\ Creds[ci] # NoSsid /\ ai <= Len(aps)
  /\ IF aps[ai].ssid = Creds[ci] /\ Stronger(aps[ai])
       THEN best' = ci /\ bestRssi' = aps[ai].rssi
       ELSE UNCHANGED <<best, bestRssi>>
  /\ ai' = ai + 1
  /\ UNCHANGED <<pc, air, aps, ci, joined>>

\* The end of the inner loop, or an empty slot.
NextCredential ==
  /\ pc = "pick" /\ ci < CredCount
  /\ Creds[ci] = NoSsid \/ ai > Len(aps)
  /\ ci' = ci + 1 /\ ai' = 1
  /\ UNCHANGED <<pc, air, aps, best, bestRssi, joined>>

Answer ==
  /\ pc = "pick" /\ ci = CredCount
  /\ pc' = "answered"
  /\ UNCHANGED <<air, aps, ci, ai, best, bestRssi, joined>>

-----------------------------------------------------------------------------
(* start_connect, and the caller's delay when there is no answer *)

\* strlcpy into sta.ssid keeps 31 characters; the configuration may be refused.
Stored(name) == IF name \in LongNames THEN Cut ELSE name

\* Mutant of StartConnect: a refused configuration leaves the last one in place.
StartConnectAnyway ==
  /\ pc = "answered" /\ best # NONE
  /\ joined' \in {Stored(Creds[best]), joined}
  /\ pc' = "idle"
  /\ UNCHANGED <<air, aps, ci, ai, best, bestRssi>>

StartConnect ==
  /\ pc = "answered" /\ best # NONE
  /\ joined' \in {Stored(Creds[best]), NoSsid}
  /\ pc' = "idle"
  /\ UNCHANGED <<air, aps, ci, ai, best, bestRssi>>

NoKnownAp ==
  /\ pc = "answered" /\ best = NONE
  /\ pc' = "idle"
  /\ UNCHANGED <<air, aps, ci, ai, best, bestRssi, joined>>

Next ==
  \/ Scan \/ ScanFails
  \/ CompareRecord \/ NextCredential \/ Answer
  \/ StartConnect \/ NoKnownAp

Spec == Init /\ [][Next]_vars

-----------------------------------------------------------------------------
(* Properties *)

\* The pairs of a slot and a record of its network, strong enough to be above
\* the initial best_rssi.
Matches ==
  {p \in Slots \X (1..Len(aps)) :
     /\ Creds[p[1]] # NoSsid /\ aps[p[2]].ssid = Creds[p[1]]
     /\ aps[p[2]].rssi > INT8_MIN}

\* Those that the loops have been through.
Seen == {p \in Matches : p[1] < ci \/ (p[1] = ci /\ p[2] < ai)}

\* The loop invariant: best and bestRssi are one of the pairs seen, no pair
\* seen is stronger, and none of an earlier slot is as strong.
BestOfSeen ==
  /\ best = NONE => Seen = {} /\ bestRssi = INT8_MIN
  /\ best # NONE =>
       \E p \in Seen : p[1] = best /\ aps[p[2]].rssi = bestRssi
  /\ \A p \in Seen :
       /\ aps[p[2]].rssi <= bestRssi
       /\ p[1] < best => aps[p[2]].rssi < bestRssi

\* The answer (lines 208-211): the strongest known network among the records,
\* the first slot that names it if several do, and none only if no record has a
\* configured name and a reading above -128, which the strict comparison with
\* the start value never takes.  An empty slot is never the answer.
AnswerIsStrongest ==
  pc = "answered" =>
    /\ best = NONE => Matches = {}
    /\ best # NONE =>
         /\ Creds[best] # NoSsid
         /\ \E i \in 1..Len(aps) :
              /\ aps[i].ssid = Creds[best]
              /\ \A p \in Matches :
                   /\ aps[p[2]].rssi <= aps[i].rssi
                   /\ p[1] < best => aps[p[2]].rssi < aps[i].rssi

\* Line 183 makes room for ScanMaxAps records.  As long as the air holds no
\* more than that and the records arrive, no visible network is stronger than
\* the answer.
KnownVisible ==
  {i \in 1..Len(air) : air[i].rssi > INT8_MIN /\ \E c \in Slots : Creds[c] = air[i].ssid}

StrongestVisible ==
  pc = "answered" /\ Len(air) <= ScanMaxAps /\ aps # Unfilled =>
    \A i \in KnownVisible : best # NONE /\ air[i].rssi <= bestRssi

\* README.md:110: the firmware "connects to the strongest known network".  From
\* the records to the driver: a name it has been given after a scan is that of
\* no weaker record than any other known network's, unless it was cut; a request
\* that was refused leaves no older name behind.
JoinsStrongest ==
  pc = "idle" /\ best # NONE /\ joined \in Ssids =>
    \E i \in 1..Len(aps) :
      /\ aps[i].ssid = joined
      /\ \A p \in Matches : aps[p[2]].rssi <= aps[i].rssi
=============================================================================
