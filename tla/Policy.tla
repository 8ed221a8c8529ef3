------------------------------- MODULE Policy -------------------------------
(***************************************************************************)
(* The adaptive policy (ahp-policy/src/lib.rs) and its use by the sending  *)
(* CLI (ahp-cli/src/main.rs run_ahp_sends, net_sender.rs send_file): every *)
(* invocation loads the history file, picks parameters for each transfer   *)
(* from it, appends the outcome and rewrites the file through a temporary  *)
(* one.  Several invocations share the file and any of them may die at any *)
(* point.  A score is a throughput less its retransmitted per cent.        *)
(***************************************************************************)
EXTENDS Integers, Sequences, FiniteSets

CONSTANTS
  Invocations,     \* the processes that run with --adaptive
  Links,           \* the link types the probe reports
  PolicyRtts,      \* the round-trip times the probe reports
  Explored,        \* the parameters exploration may draw
  Factors,         \* its factors, in tenths
  RecordsPerLink,  \* MAX_RECORDS_PER_LINK_TYPE
  MaxTransfers     \* transfers in a behaviour

VARIABLES
  history,    \* the history file: "absent", "torn" or a sequence of records
  backup,     \* the .corrupt file beside it
  drafts,     \* the temporary file of each invocation
  invocation, \* each invocation: at, its records, and the transfer it runs
  transfers,  \* transfers so far
  outcomes,   \* ghost: every record that was ever accepted
  found       \* ghost: what the first invocation found on disk

policyVars == <<history, backup, drafts, invocation, transfers, outcomes, found>>

NoFile == [kind |-> "absent", records |-> <<>>]
Torn == [kind |-> "torn", records |-> <<>>]
Saved(records) == [kind |-> "whole", records |-> records]

---------------------------------------------------------------------------
(* Parameters.                                                             *)

Params(retx, cwnd, batch, interval, cc, buf, payload, streams) ==
  [retx_timeout_ms |-> retx, min_cwnd_kb |-> cwnd, batch_size |-> batch,
   progress_ack_interval_ms |-> interval, cc_profile |-> cc, ack_mode |-> "bitmap",
   socket_buf_kb |-> buf, payload_size |-> payload, num_streams |-> streams]

DefaultsForLinkType(link) ==
  CASE link = "loopback" -> Params(50, 512, 256, 50, "classic", 2048, 1350, 1)
    [] link = "LAN/ethernet" -> Params(50, 384, 128, 50, "model", 2048, 1350, 4)
    [] link = "LAN/wifi" -> Params(150, 512, 128, 75, "model", 2048, 1350, 4)
    [] link = "WAN" -> Params(200, 16, 16, 100, "classic", 128, 1200, 2)
    [] OTHER -> Params(100, 64, 32, 75, "classic", 208, 1350, 4)

Clamp(v, lo, hi) == IF v < lo THEN lo ELSE IF v > hi THEN hi ELSE v

\* What exploration clamps each numeric parameter to.
ExploreRange ==
  [retx_timeout_ms |-> <<20, 500>>, min_cwnd_kb |-> <<8, 512>>, batch_size |-> <<4, 128>>,
   progress_ack_interval_ms |-> <<20, 200>>, socket_buf_kb |-> <<64, 4096>>,
   payload_size |-> <<500, 1400>>, num_streams |-> <<1, 16>>]

ExploreProfiles == {"classic", "model", "wifi", "rl"}

\* The parameter sets one perturbation away from base.
ExploreParams(base) ==
  LET numeric == {f \in Explored : f \in DOMAIN ExploreRange}
      scaled(f, k) == Clamp((base[f] * k + 5) \div 10, ExploreRange[f][1], ExploreRange[f][2])
  IN  {[base EXCEPT ![f] = scaled(f, k)] : f \in numeric, k \in Factors}
      \cup {[base EXCEPT !.cc_profile = p] :
              p \in {q \in ExploreProfiles : "cc_profile" \in Explored /\ q # base.cc_profile}}
      \cup {[base EXCEPT !.ack_mode = IF base.ack_mode = "nack" THEN "bitmap" ELSE "nack"] :
              c \in Explored \cap {"ack_mode"}}

\* MAX_PACKET less the wire overhead and the authentication tag.
MaxPayload == 1500 - 64 - 16

SanitizeRange ==
  [payload_size |-> <<1, MaxPayload>>, num_streams |-> <<1, 64>>, batch_size |-> <<1, 1024>>,
   socket_buf_kb |-> <<16, 65536>>, min_cwnd_kb |-> <<1, 65536>>,
   retx_timeout_ms |-> <<10, 60000>>, progress_ack_interval_ms |-> <<1, 10000>>]

SanitizePolicyParams(p) ==
  [f \in DOMAIN p |-> IF f \in DOMAIN SanitizeRange
                      THEN Clamp(p[f], SanitizeRange[f][1], SanitizeRange[f][2])
                      ELSE p[f]]

AnchorFields == {"cc_profile", "ack_mode", "batch_size", "min_cwnd_kb", "socket_buf_kb",
                 "payload_size", "num_streams"}
ParamsMatchAnchor(p, anchor) == \A f \in AnchorFields : p[f] = anchor[f]

---------------------------------------------------------------------------
(* The history.                                                            *)

RttsAreSimilar(a, b) ==
  IF a = 0 \/ b = 0 THEN a = b ELSE a <= 2 * b /\ b <= 2 * a

\* The places of the records from a similar path.
Similar(records, link, rtt) ==
  {i \in DOMAIN records : records[i].link = link /\ RttsAreSimilar(records[i].rtt, rtt)}

Score(throughput, retx) == (throughput * (100 - retx)) \div 100

IsValid(r) == r.throughput >= 0 /\ r.retx \in 0 .. 100 /\ r.score >= 0

\* max_by over some of the records: the last of the highest scores.
BestOf(records, some) ==
  LET top == {i \in some : \A j \in some : records[j].score <= records[i].score}
  IN  records[CHOOSE i \in top : \A j \in top : j <= i]

\* Vec::retain: the records at the places kept, in their order.
Retain(records, keep) ==
  [n \in 1 .. Cardinality(keep) |->
     records[CHOOSE i \in keep : Cardinality({j \in keep : j <= i}) = n]]

\* A bug: the history wins whenever there is any.
SuggestParamsFromHistory(records, link, rtt) ==
  LET similar == Similar(records, link, rtt)
  IN  IF similar = {} THEN DefaultsForLinkType(link) ELSE BestOf(records, similar).params

SuggestParams(records, link, rtt) ==
  LET anchor == DefaultsForLinkType(link)
      similar == Similar(records, link, rtt)
      tried == {i \in similar : ParamsMatchAnchor(records[i].params, anchor)}
  IN  IF tried # {} /\ BestOf(records, similar).score > BestOf(records, tried).score
      THEN BestOf(records, similar).params ELSE anchor

\* The oldest records of a link type over its cap go first.
EnforceHistoryCap(records) ==
  LET ofLink(l) == {i \in DOMAIN records : records[i].link = l}
      kept(i) == Cardinality({j \in ofLink(records[i].link) : j > i}) < RecordsPerLink
  IN  Retain(records, {i \in DOMAIN records : kept(i)})

---------------------------------------------------------------------------
(* Steps.                                                                  *)

Idle == [at |-> "off", records |-> <<>>, link |-> "unknown", rtt |-> 0,
         base |-> DefaultsForLinkType("unknown"), params |-> DefaultsForLinkType("unknown")]

Seeded(link, rtt, throughput) ==
  [link |-> link, rtt |-> rtt, params |-> DefaultsForLinkType(link), throughput |-> throughput,
   retx |-> 0, score |-> throughput]

\* Histories found on disk: none, one an older version wrote with a negative
\* score, and one another program damaged.
PolicyInit ==
  /\ \/ history \in {NoFile, Torn}
     \/ \E l \in Links, rtt \in PolicyRtts, s \in {10, -1} :
          history = Saved(<<[Seeded(l, rtt, 10) EXCEPT !.score = s]>>)
  /\ found = history.kind
  /\ backup = NoFile
  /\ drafts = [c \in Invocations |-> NoFile]
  /\ invocation = [c \in Invocations |-> Idle]
  /\ transfers = 0
  /\ outcomes = {history.records[i] : i \in DOMAIN history.records}

Stands(c, at) == invocation[c].at = at

\* The invocation's state between transfers.
Between(records) == [Idle EXCEPT !.at = "ready", !.records = records]

\* AdaptivePolicy::new reads the file.
Load(c) ==
  /\ Stands(c, "off") /\ transfers < MaxTransfers
  /\ invocation' = [invocation EXCEPT ![c] =
       [Idle EXCEPT !.at = IF history.kind = "torn" THEN "damaged" ELSE "ready",
                    !.records = Retain(history.records,
                                       {i \in DOMAIN history.records : IsValid(history.records[i])})]]
  /\ UNCHANGED <<history, backup, drafts, transfers, outcomes, found>>

\* An unparsable file is moved aside; another process may have replaced it since.
MoveAside(c) ==
  /\ Stands(c, "damaged")
  /\ invocation' = [invocation EXCEPT ![c].at = "ready"]
  /\ IF history.kind = "absent" THEN UNCHANGED <<history, backup>>
     ELSE backup' = history /\ history' = NoFile
  /\ UNCHANGED <<drafts, transfers, outcomes, found>>

\* send_file: probe, suggest, perhaps explore, sanitize.
Choose(c) ==
  /\ Stands(c, "ready") /\ transfers < MaxTransfers
  /\ transfers' = transfers + 1
  /\ \E link \in Links, rtt \in PolicyRtts :
       LET base == SuggestParams(invocation[c].records, link, rtt)
       IN  \E params \in {base} \cup ExploreParams(base) :
             invocation' = [invocation EXCEPT ![c] =
               [@ EXCEPT !.at = "sending", !.link = link, !.rtt = rtt, !.base = base,
                         !.params = SanitizePolicyParams(params)]]
  /\ UNCHANGED <<history, backup, drafts, outcomes, found>>

\* A transfer that fails records nothing.
TransferFails(c) ==
  /\ Stands(c, "sending")
  /\ invocation' = [invocation EXCEPT ![c] = Between(@.records)]
  /\ UNCHANGED <<history, backup, drafts, transfers, outcomes, found>>

Acceptable(throughput, retx) == throughput >= 0 /\ retx \in 0 .. 100

\* <<throughput, retransmitted per cent>>: the last is out of range.
Outcomes == {<<10, 0>>, <<30, 60>>, <<20, 120>>}

\* record_outcome up to its save.
RecordOutcome(c) ==
  /\ Stands(c, "sending")
  /\ \E o \in Outcomes :
       LET r == [link |-> invocation[c].link, rtt |-> invocation[c].rtt,
                 params |-> invocation[c].params,
                 throughput |-> o[1], retx |-> o[2], score |-> Score(o[1], o[2])]
       IN  IF Acceptable(o[1], o[2])
           THEN /\ invocation' = [invocation EXCEPT ![c] =
                     [Between(EnforceHistoryCap(Append(@.records, r))) EXCEPT !.at = "saving"]]
                /\ outcomes' = outcomes \cup {r}
           ELSE invocation' = [invocation EXCEPT ![c] = Between(@.records)] /\ UNCHANGED outcomes
  /\ UNCHANGED <<history, backup, drafts, transfers, found>>

\* save: File::create of the invocation's own temporary name.
CreateTmp(c) ==
  /\ Stands(c, "saving")
  /\ drafts' = [drafts EXCEPT ![c] = Torn]
  /\ invocation' = [invocation EXCEPT ![c].at = "writing"]
  /\ UNCHANGED <<history, backup, transfers, outcomes, found>>

\* write_all and sync_all.
WriteTmp(c) ==
  /\ Stands(c, "writing")
  /\ drafts' = [drafts EXCEPT ![c] = Saved(invocation[c].records)]
  /\ invocation' = [invocation EXCEPT ![c].at = "renaming"]
  /\ UNCHANGED <<history, backup, transfers, outcomes, found>>

ReplaceHistory(c) ==
  /\ Stands(c, "renaming")
  /\ history' = drafts[c]
  /\ drafts' = [drafts EXCEPT ![c] = NoFile]
  /\ invocation' = [invocation EXCEPT ![c].at = "ready"]
  /\ UNCHANGED <<backup, transfers, outcomes, found>>

\* Any step of the save may fail; record_outcome ignores it.
SaveFails(c) ==
  /\ invocation[c].at \in {"saving", "writing", "renaming"}
  /\ invocation' = [invocation EXCEPT ![c].at = "ready"]
  /\ UNCHANGED <<history, backup, drafts, transfers, outcomes, found>>

\* The invocation ends, or dies.
Exit(c) ==
  /\ ~Stands(c, "off")
  /\ invocation' = [invocation EXCEPT ![c] = Idle]
  /\ UNCHANGED <<history, backup, drafts, transfers, outcomes, found>>

PolicyNext == \E c \in Invocations :
  \/ Load(c) \/ MoveAside(c) \/ Choose(c) \/ TransferFails(c) \/ RecordOutcome(c)
  \/ CreateTmp(c) \/ WriteTmp(c) \/ ReplaceHistory(c) \/ SaveFails(c) \/ Exit(c)

PolicySpec == PolicyInit /\ [][PolicyNext]_policyVars

---------------------------------------------------------------------------
Real(records) == {records[i] : i \in DOMAIN records} \subseteq outcomes

Earned(c) ==
  LET anchor == DefaultsForLinkType(invocation[c].link)
      near(r) == r.link = invocation[c].link /\ RttsAreSimilar(r.rtt, invocation[c].rtt)
  IN  \/ invocation[c].base = anchor
      \/ \E r, a \in outcomes :
           /\ near(r) /\ near(a)
           /\ r.params = invocation[c].base /\ ParamsMatchAnchor(a.params, anchor)
           /\ r.score > a.score

(***************************************************************************)
(* suggest_params, record_outcome and save, with invocations sharing the   *)
(* file and dying anywhere: a transfer departs from the link type's        *)
(* defaults only for parameters that did beat them on a similar path; no   *)
(* invocation holds an invalid record or, after recording, more than the   *)
(* cap of one link type; and a save never leaves a damaged history, nor    *)
(* one with a record nobody measured.                                      *)
(***************************************************************************)
HistorySound ==
  /\ \A c \in Invocations : Stands(c, "sending") => Earned(c)
  /\ \A c \in Invocations : LET records == invocation[c].records IN
       /\ \A i \in DOMAIN records : IsValid(records[i])
       /\ \A l \in Links : Stands(c, "saving") =>
            Cardinality({i \in DOMAIN records : records[i].link = l}) <= RecordsPerLink
  /\ Real(history.records)
  /\ history.kind = "torn" => found = "torn"
=============================================================================
