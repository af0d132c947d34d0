------------------------- MODULE LeadPipelineProofs -------------------------
(***************************************************************************)
(* The lead pipeline for any number of markets, phone numbers, rows,       *)
(* failing steps and commits of others.                                    *)
(***************************************************************************)
EXTENDS LeadPipeline, TLAPS

RunState ==
  [at : ScriptSteps \cup {"none", "uploading", "committing"}, fresh : BOOLEAN,
   market : Markets, file : ProgressFiles, failed : BOOLEAN,
   left : 0..MaxRows, leads : Seq(Phones), seen : SUBSET Phones,
   csv : {"none", "cut", "whole"}]

\* What the steps a run has behind it left.
RunOrder ==
  /\ scrape.at \in {"none", "scraping", "processing", "writing"} => scrape.csv # "whole"
  /\ scrape.at \in {"reporting", "advancing", "uploading"} /\ ~scrape.failed => scrape.csv = "whole"
  /\ scrape.at = "committing" => scrape.market \in delivered

\* The numbers remembered, the leads and the rows that qualified agree all along.
LeadsAgree ==
  scrape.at # "none" =>
    /\ qualified = scrape.seen
    /\ scrape.seen = {scrape.leads[i] : i \in DOMAIN scrape.leads}
    /\ \A i, j \in DOMAIN scrape.leads : scrape.leads[i] = scrape.leads[j] => i = j

LeadInv == LeadTypeOK /\ RunOrder /\ PassedIsDelivered /\ LeadsAgree

LEMMA MarketsAre ==
  /\ 0 \in Markets /\ Markets \subseteq ProgressFiles /\ {Unreadable, Raising} \subseteq ProgressFiles
  /\ \A f \in ProgressFiles : ReadProgress(f) \in Markets
  /\ \A m \in Markets : (m + 1) % MarketCount \in Markets
  BY LeadAssumption DEF Markets, ProgressFiles, Unreadable, Raising, ReadProgress

LEMMA NoRunIs ==
  /\ NoRun \in RunState
  /\ NoRun.at = "none" /\ NoRun.csv = "none"
  BY MarketsAre, LeadAssumption DEF NoRun, RunState, ScriptSteps

\* A sequence with a new member at its end.
LEMMA AppendsNew ==
  ASSUME NEW S, NEW s \in Seq(S), NEW x \in S, x \notin {s[i] : i \in DOMAIN s},
         \A i, j \in DOMAIN s : s[i] = s[j] => i = j
  PROVE  /\ Append(s, x) \in Seq(S)
         /\ {Append(s, x)[i] : i \in DOMAIN Append(s, x)} = {s[i] : i \in DOMAIN s} \cup {x}
         /\ \A i, j \in DOMAIN Append(s, x) : Append(s, x)[i] = Append(s, x)[j] => i = j
<1>1. /\ Append(s, x) \in Seq(S) /\ Len(s) \in Nat /\ DOMAIN s = 1..Len(s)
      /\ DOMAIN Append(s, x) = 1..(Len(s) + 1)
      /\ \A i \in 1..Len(s) : Append(s, x)[i] = s[i]
      /\ Append(s, x)[Len(s) + 1] = x
  OBVIOUS
<1>. DEFINE t == Append(s, x)  n == Len(s)
<1>2. \A i \in 1..(n + 1) : i \in 1..n \/ i = n + 1
  BY <1>1
<1>. HIDE DEF t, n
<1>3. {t[i] : i \in DOMAIN t} = {s[i] : i \in DOMAIN s} \cup {x}
  <2>1. \A i \in DOMAIN t : t[i] \in {s[k] : k \in DOMAIN s} \cup {x}
    BY <1>1, <1>2 DEF t, n
  <2>2. \A i \in DOMAIN s : i \in DOMAIN t /\ t[i] = s[i]
    BY <1>1 DEF t
  <2>3. n + 1 \in DOMAIN t /\ t[n + 1] = x
    BY <1>1 DEF t, n
  <2>. QED BY <2>1, <2>2, <2>3
<1>4. ASSUME NEW i \in DOMAIN t, NEW j \in DOMAIN t, t[i] = t[j] PROVE i = j
  <2>1. i \in 1..n \/ i = n + 1
    BY <1>1, <1>2 DEF t, n
  <2>2. j \in 1..n \/ j = n + 1
    BY <1>1, <1>2 DEF t, n
  <2>. QED BY <1>1, <1>4, <2>1, <2>2 DEF t, n
<1>. QED BY <1>1, <1>3, <1>4 DEF t

LEMMA LeadInitInv == LeadInit => LeadInv
<1>. SUFFICES ASSUME LeadInit PROVE LeadInv
  OBVIOUS
<1>1. scrape \in RunState /\ scrape.at = "none" /\ scrape.csv = "none"
  BY NoRunIs DEF LeadInit
<1>2. queued \in [waits : BOOLEAN, fresh : BOOLEAN, file : ProgressFiles]
  BY MarketsAre DEF LeadInit, NotWaiting
<1>3. LeadTypeOK
  BY <1>1, <1>2, LeadAssumption DEF LeadInit, LeadTypeOK, RunState
<1>. QED BY <1>1, <1>3 DEF LeadInit, LeadInv, RunOrder, LeadsAgree, PassedIsDelivered

RunTyped ==
  /\ branch \in ProgressFiles
  /\ queued \in [waits : BOOLEAN, fresh : BOOLEAN, file : ProgressFiles]
  /\ scrape \in RunState
  /\ qualified \in SUBSET Phones

RecordsTyped ==
  /\ delivered \in SUBSET Markets
  /\ passed \in SUBSET Markets
  /\ faults \in 0..MaxFaults /\ pushes \in 0..MaxPushes

LEMMA LeadTypesAre == LeadTypeOK <=> RunTyped /\ RecordsTyped
  BY DEF LeadTypeOK, RunTyped, RecordsTyped, RunState

\* Every step of the loop over the rows.
LEMMA RunTypeStep ==
  ASSUME LeadInv, [LeadNext]_leadVars
  PROVE  RunTyped'
<1>0. RunTyped /\ scrape \in RunState /\ branch \in ProgressFiles /\ qualified \in SUBSET Phones
  BY LeadTypesAre DEF LeadInv, RunTyped
<1>1. CASE Triggers
  BY <1>0, <1>1 DEF Triggers, RunTyped
<1>2. CASE OthersPush
  <2>1. /\ [queued EXCEPT !.fresh = FALSE] \in
             [waits : BOOLEAN, fresh : BOOLEAN, file : ProgressFiles]
        /\ [scrape EXCEPT !.fresh = FALSE] \in RunState
    BY <1>0 DEF RunTyped, RunState
  <2>. QED BY <1>0, <1>2, <2>1 DEF OthersPush, OthersBehind, RunTyped
<1>3. CASE Starts
  <2>1. ReadProgress(queued.file) \in Markets /\ queued.file \in ProgressFiles
        /\ queued.fresh \in BOOLEAN
    BY <1>0, MarketsAre DEF RunTyped
  <2>2. scrape' \in RunState
    BY <1>3, <2>1, NoRunIs DEF Starts, RunState, ScriptSteps
  <2>3. queued' \in [waits : BOOLEAN, fresh : BOOLEAN, file : ProgressFiles]
    BY <1>3, MarketsAre DEF Starts, NotWaiting
  <2>. QED BY <1>0, <1>3, <2>2, <2>3 DEF Starts, RunTyped
<1>4. ASSUME UNCHANGED <<branch, queued, qualified>>, scrape' \in RunState PROVE RunTyped'
  BY <1>0, <1>4 DEF RunTyped
<1>5. CASE Scrapes
  <2>1. scrape' \in RunState
    BY <1>0, <1>5 DEF Scrapes, RunState, ScriptSteps
  <2>. QED BY <1>4, <1>5, <2>1 DEF Scrapes, InRun
<1>6. scrape.left > 0 => scrape.left - 1 \in 0..MaxRows
  BY <1>0, LeadAssumption DEF RunState
<1>7. CASE DropsRow
  <2>1. scrape' \in RunState
    BY <1>0, <1>6, <1>7 DEF DropsRow, RunState
  <2>. QED BY <1>4, <1>7, <2>1 DEF DropsRow, InRun
<1>8. ASSUME NEW p \in Phones, KeepsRow(p) PROVE RunTyped'
  <2>1. scrape.left - 1 \in 0..MaxRows
    BY <1>6, <1>8 DEF KeepsRow
  <2>2. [scrape EXCEPT !.left = @ - 1] \in RunState
    BY <1>0, <2>1 DEF RunState
  <2>3. scrape.seen \cup {p} \in SUBSET Phones /\ Append(scrape.leads, p) \in Seq(Phones)
    BY <1>0 DEF RunState
  <2>4. [scrape EXCEPT !.left = @ - 1, !.seen = @ \cup {p}, !.leads = Append(@, p)] \in RunState
    BY <1>0, <2>1, <2>3 DEF RunState
  <2>5. scrape' \in RunState
    BY <1>8, <2>2, <2>4 DEF KeepsRow
  <2>. QED BY <1>0, <1>8, <2>5 DEF KeepsRow, InRun, RunTyped
<1>9. CASE ProcessedRows \/ WritesCSV \/ WritesOutputs
  <2>1. scrape' \in RunState
    BY <1>0, <1>9 DEF ProcessedRows, WritesCSV, WritesOutputs, RunState, ScriptSteps
  <2>. QED BY <1>4, <1>9, <2>1 DEF ProcessedRows, WritesCSV, WritesOutputs, InRun
<1>10. CASE WritesProgress
  <2>1. (scrape.market + 1) % MarketCount \in ProgressFiles
    BY <1>0, MarketsAre DEF RunState
  <2>2. scrape' \in RunState
    BY <1>0, <1>10, <2>1 DEF WritesProgress, RunState, ScriptSteps
  <2>. QED BY <1>4, <1>10, <2>2 DEF WritesProgress, InRun
<1>11. CASE ScriptFails
  <2>1. /\ (IF scrape.at = "writing" THEN "cut" ELSE scrape.csv) \in {"none", "cut", "whole"}
        /\ (IF scrape.at = "advancing" THEN Unreadable ELSE scrape.file) \in ProgressFiles
    BY <1>0, MarketsAre DEF RunState
  <2>2. scrape' \in RunState
    BY <1>0, <1>11, <2>1 DEF ScriptFails, RunState
  <2>. QED BY <1>4, <1>11, <2>2 DEF ScriptFails
<1>12. CASE Uploads \/ UploadFails \/ PushRejected \/ PushFails
  <2>1. [scrape EXCEPT !.at = "committing"] \in RunState
    BY <1>0 DEF RunState
  <2>2. scrape' \in RunState
    BY <1>12, <2>1, NoRunIs DEF Uploads, UploadFails, PushRejected, PushFails
  <2>. QED BY <1>4, <1>12, <2>2 DEF Uploads, UploadFails, PushRejected, PushFails, InRun
<1>13. CASE Pushes
  <2>1. /\ [queued EXCEPT !.fresh = FALSE] \in
             [waits : BOOLEAN, fresh : BOOLEAN, file : ProgressFiles]
        /\ scrape.file \in ProgressFiles
    BY <1>0 DEF RunTyped, RunState
  <2>. QED BY <1>0, <1>13, <2>1, NoRunIs DEF Pushes, RunTyped
<1>14. CASE UNCHANGED leadVars
  BY <1>0, <1>4, <1>14 DEF leadVars
<1>. QED BY <1>1, <1>2, <1>3, <1>5, <1>7, <1>8, <1>9, <1>10, <1>11, <1>12, <1>13, <1>14
     DEF LeadNext, RunStep

\* The records only gain what the run at work covers.
LEMMA RecordsStep ==
  ASSUME LeadInv, [LeadNext]_leadVars
  PROVE  /\ RecordsTyped' /\ delivered \subseteq delivered'
         /\ passed' = passed \/ (Pushes /\ passed' = passed \cup {scrape.market})
<1>0. /\ RecordsTyped /\ faults \in 0..MaxFaults /\ pushes \in 0..MaxPushes
      /\ scrape \in RunState
  BY LeadTypesAre DEF LeadInv, RunTyped, RecordsTyped
<1>1. scrape.market \in Markets
  BY <1>0 DEF RunState
<1>2. Fault => faults' \in 0..MaxFaults
  BY <1>0, LeadAssumption DEF Fault
<1>3. OthersPush => pushes' \in 0..MaxPushes
  BY <1>0, LeadAssumption DEF OthersPush
<1>4. CASE Pushes
  BY <1>0, <1>1, <1>4 DEF Pushes, RecordsTyped
<1>5. CASE Uploads
  BY <1>0, <1>1, <1>5 DEF Uploads, RecordsTyped
<1>6. CASE OthersPush
  BY <1>0, <1>3, <1>6 DEF OthersPush, RecordsTyped
<1>7. CASE ScriptFails \/ UploadFails \/ PushFails
  BY <1>0, <1>2, <1>7 DEF ScriptFails, UploadFails, PushFails, RecordsTyped
<1>8. ASSUME \/ Triggers
             \/ Starts \/ Scrapes \/ DropsRow \/ (\E p \in Phones : KeepsRow(p)) \/ ProcessedRows
             \/ WritesCSV \/ WritesProgress \/ WritesOutputs \/ PushRejected \/ UNCHANGED leadVars
      PROVE  UNCHANGED <<delivered, passed, faults, pushes>>
  BY <1>8 DEF Triggers, Starts, Scrapes, DropsRow, KeepsRow, ProcessedRows, WritesCSV, WritesProgress,
     WritesOutputs, PushRejected, leadVars, InRun
<1>. QED BY <1>0, <1>4, <1>5, <1>6, <1>7, <1>8 DEF LeadNext, RunStep, RecordsTyped

\* The steps of a run keep their order.
LEMMA OrderStep ==
  ASSUME LeadInv, [LeadNext]_leadVars
  PROVE  RunOrder'
<1>0. scrape \in RunState /\ RunOrder
  BY LeadTypesAre DEF LeadInv, RunTyped
<1>1. ASSUME scrape' = NoRun PROVE RunOrder'
  BY <1>1, NoRunIs DEF RunOrder
<1>2. ASSUME scrape'.at = scrape.at, scrape'.csv = scrape.csv, scrape'.failed = scrape.failed, scrape'.market = scrape.market,
             delivered' = delivered
      PROVE  RunOrder'
  BY <1>0, <1>2 DEF RunOrder
<1>3. CASE Triggers \/ UNCHANGED leadVars
  BY <1>2, <1>3 DEF Triggers, leadVars
<1>4. CASE OthersPush
  BY <1>0, <1>2, <1>4 DEF OthersPush, OthersBehind, RunState
<1>5. CASE Starts
  <2>1. /\ scrape'.csv = "none"
        /\ scrape'.at = "scraping" \/ (scrape'.at = "uploading" /\ scrape'.failed)
    BY <1>5, NoRunIs DEF Starts, RunState
  <2>. QED BY <2>1 DEF RunOrder
<1>6. CASE Scrapes \/ DropsRow \/ (\E p \in Phones : KeepsRow(p)) \/ ProcessedRows
  <2>1. scrape'.at \in {"processing", "writing"} /\ scrape'.csv = scrape.csv
        /\ scrape.at \in {"scraping", "processing"}
    BY <1>0, <1>6 DEF Scrapes, DropsRow, KeepsRow, ProcessedRows, InRun, RunState
  <2>. QED BY <1>0, <2>1 DEF RunOrder
<1>7. CASE WritesCSV \/ WritesProgress \/ WritesOutputs
  <2>1. scrape'.at \in {"advancing", "reporting", "uploading"} /\ scrape'.failed = scrape.failed
        /\ \/ scrape'.csv = "whole"
           \/ scrape.at \in {"advancing", "reporting"} /\ scrape'.csv = scrape.csv
    BY <1>0, <1>7 DEF WritesCSV, WritesProgress, WritesOutputs, InRun, RunState
  <2>. QED BY <1>0, <2>1 DEF RunOrder
<1>8. CASE ScriptFails
  <2>1. scrape'.at = "uploading" /\ scrape'.failed
    BY <1>0, <1>8 DEF ScriptFails, RunState
  <2>. QED BY <2>1 DEF RunOrder
<1>9. CASE Uploads
  <2>1. CASE scrape.failed
    BY <1>1, <1>9, <2>1 DEF Uploads
  <2>2. CASE ~scrape.failed
    <3>1. scrape.csv = "whole" /\ scrape'.at = "committing" /\ scrape'.market = scrape.market
      BY <1>0, <1>9, <2>2 DEF Uploads, RunOrder, RunState
    <3>. QED BY <1>9, <3>1 DEF Uploads, RunOrder
  <2>. QED BY <2>1, <2>2
<1>10. CASE UploadFails \/ Pushes \/ PushRejected \/ PushFails
  BY <1>1, <1>10 DEF UploadFails, Pushes, PushRejected, PushFails
<1>. QED BY <1>3, <1>4, <1>5, <1>6, <1>7, <1>8, <1>9, <1>10 DEF LeadNext, RunStep

\* The loop over the rows keeps what it remembers, the leads and what qualified together.
LEMMA AgreeStep ==
  ASSUME LeadInv, [LeadNext]_leadVars
  PROVE  LeadsAgree'
<1>0. scrape \in RunState /\ LeadsAgree /\ qualified \in SUBSET Phones
  BY LeadTypesAre DEF LeadInv, RunTyped
<1>1. ASSUME scrape.at # "none", scrape'.seen = scrape.seen, scrape'.leads = scrape.leads, qualified' = qualified
      PROVE  LeadsAgree'
  BY <1>0, <1>1 DEF LeadsAgree
<1>2. ASSUME scrape'.at = "none" PROVE LeadsAgree'
  BY <1>2 DEF LeadsAgree
<1>3. ASSUME scrape'.at = scrape.at, scrape'.seen = scrape.seen, scrape'.leads = scrape.leads, qualified' = qualified
      PROVE  LeadsAgree'
  BY <1>1, <1>2, <1>3
<1>4. CASE Triggers \/ UNCHANGED leadVars
  BY <1>3, <1>4 DEF Triggers, leadVars
<1>5. CASE OthersPush
  BY <1>0, <1>3, <1>5 DEF OthersPush, OthersBehind, RunState
<1>6. CASE Starts
  <2>1. scrape'.seen = {} /\ scrape'.leads = <<>> /\ qualified' = {}
    BY <1>6 DEF Starts, NoRun
  <2>. QED BY <2>1 DEF LeadsAgree
<1>7. CASE \/ Scrapes \/ DropsRow \/ ProcessedRows \/ WritesCSV \/ WritesProgress \/ WritesOutputs
           \/ ScriptFails
  <2>1. scrape.at # "none" /\ qualified' = qualified
    BY <1>7 DEF Scrapes, DropsRow, ProcessedRows, WritesCSV, WritesProgress, WritesOutputs, ScriptFails,
       InRun, ScriptSteps
  <2>2. scrape'.seen = scrape.seen /\ scrape'.leads = scrape.leads
    BY <1>0, <1>7 DEF Scrapes, DropsRow, ProcessedRows, WritesCSV, WritesProgress, WritesOutputs,
       ScriptFails, RunState
  <2>. QED BY <1>1, <2>1, <2>2
<1>8. ASSUME NEW p \in Phones, KeepsRow(p) PROVE LeadsAgree'
  <2>1. scrape.at # "none" /\ qualified' = qualified \cup {p}
    BY <1>8 DEF KeepsRow, InRun
  <2>2. /\ qualified = scrape.seen
        /\ scrape.seen = {scrape.leads[i] : i \in DOMAIN scrape.leads}
        /\ \A i, j \in DOMAIN scrape.leads : scrape.leads[i] = scrape.leads[j] => i = j
    BY <1>0, <2>1 DEF LeadsAgree
  <2>3. CASE p \in scrape.seen
    <3>1. scrape'.seen = scrape.seen /\ scrape'.leads = scrape.leads /\ qualified' = qualified
      BY <1>0, <1>8, <2>1, <2>2, <2>3 DEF KeepsRow, RunState
    <3>. QED BY <1>1, <2>1, <3>1
  <2>4. CASE p \notin scrape.seen
    <3>1. scrape'.seen = scrape.seen \cup {p} /\ scrape'.leads = Append(scrape.leads, p)
      BY <1>0, <1>8, <2>4 DEF KeepsRow, RunState
    <3>2. scrape.leads \in Seq(Phones)
      BY <1>0 DEF RunState
    <3>. DEFINE s == scrape.leads  t == Append(s, p)
    <3>3. p \notin {s[i] : i \in DOMAIN s} /\ \A i, j \in DOMAIN s : s[i] = s[j] => i = j
      BY <2>2, <2>4
    <3>4. s \in Seq(Phones)
      BY <3>2
    <3>. HIDE DEF s
    <3>5. /\ {t[i] : i \in DOMAIN t} = {s[i] : i \in DOMAIN s} \cup {p}
          /\ \A i, j \in DOMAIN t : t[i] = t[j] => i = j
      BY <3>3, <3>4, AppendsNew
    <3>6. scrape'.seen = qualified' /\ scrape'.leads = t /\ qualified' = {s[i] : i \in DOMAIN s} \cup {p}
      BY <2>1, <2>2, <3>1 DEF s
    <3>. HIDE DEF t
    <3>. QED BY <3>5, <3>6 DEF LeadsAgree
  <2>. QED BY <2>3, <2>4
<1>9. CASE Uploads
  <2>1. scrape' = NoRun \/ (scrape'.seen = scrape.seen /\ scrape'.leads = scrape.leads)
    BY <1>0, <1>9 DEF Uploads, RunState
  <2>. QED BY <1>1, <1>2, <1>9, <2>1, NoRunIs DEF Uploads
<1>10. CASE UploadFails \/ Pushes \/ PushRejected \/ PushFails
  BY <1>2, <1>10, NoRunIs DEF UploadFails, Pushes, PushRejected, PushFails
<1>. QED BY <1>4, <1>5, <1>6, <1>7, <1>8, <1>9, <1>10 DEF LeadNext, RunStep

LEMMA LeadInvStep == LeadInv /\ [LeadNext]_leadVars => LeadInv'
<1>. SUFFICES ASSUME LeadInv, [LeadNext]_leadVars PROVE LeadInv'
  OBVIOUS
<1>1. LeadTypeOK'
  BY RunTypeStep, RecordsStep, LeadTypesAre DEF LeadTypeOK, RunTyped, RecordsTyped, RunState
<1>2. PassedIsDelivered'
  <2>1. Pushes => scrape.market \in delivered
    BY DEF Pushes, LeadInv, RunOrder
  <2>. QED BY <2>1, RecordsStep DEF LeadInv, PassedIsDelivered
<1>. QED BY <1>1, <1>2, OrderStep, AgreeStep DEF LeadInv

\* Every variable keeps its type, whatever steps fail and whatever others push.
THEOREM LeadTyping == LeadSpec => []LeadTypeOK
<1>1. LeadInv => LeadTypeOK
  BY DEF LeadInv
<1>. QED BY <1>1, LeadInitInv, LeadInvStep, PTL DEF LeadSpec

\* The branch never goes past a market whose CSV file is nowhere: the progress file is
\* written after the CSV file (run_once) and pushed after the upload (scrape-leads.yml).
THEOREM NoMarketSkipped == LeadSpec => []PassedIsDelivered
<1>1. LeadInv => PassedIsDelivered
  BY DEF LeadInv
<1>. QED BY <1>1, LeadInitInv, LeadInvStep, PTL DEF LeadSpec

\* A whole CSV file has every number that qualified, once (process_results).
THEOREM OneLeadEach == LeadSpec => []LeadsAreRight
<1>1. LeadInv => LeadsAreRight
  BY DEF LeadInv, LeadsAreRight, LeadsAgree, RunOrder
<1>. QED BY <1>1, LeadInitInv, LeadInvStep, PTL DEF LeadSpec
=============================================================================
