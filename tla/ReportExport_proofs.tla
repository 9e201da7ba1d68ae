------------------------- MODULE ReportExport_proofs --------------------------
(***************************************************************************)
(* Proofs about ReportExport for any number of runs and of reports: what the *)
(* page says of an export is true of the run it shows, and the broker, its   *)
(* timers and its messages implement plain remote calls.                     *)
(***************************************************************************)
EXTENDS ReportExport, TLAPS

Request == [id : Ids, format : {"text", "xlsx"}, run : Runs]
Reply == [id : Ids, ok : BOOLEAN]

(* Of what is under way for an id: the run it was asked in. *)
Fits(id, run) == id <= sequence /\ run = asked[id]
FileOf(id) == id <= sequence /\ saved[id] = asked[id] /\ saved[id] # 0

UnderWay ==
    /\ \A k \in DOMAIN toShell : Fits(toShell[k].id, toShell[k].run)
    /\ \A b \in building : Fits(b.id, b.run)
    /\ \A k \in DOMAIN toVault : toVault[k].ok => FileOf(toVault[k].id)

Settlement ==
    /\ \A i \in Ids : outcome[i] = "idle" <=> i > sequence
    /\ \A i \in Ids : i \in waiting <=> outcome[i] = "waiting"
    /\ \A i \in Ids : outcome[i] = "answered" => saved[i] # 0

Noticed ==
    /\ notice.kind # "none" => notice.id \in Ids /\ asked[notice.id] = generation /\ notice.id <= sequence
    /\ notice.kind = "exported" => FileOf(notice.id)

IInv ==
    /\ TypeOK
    /\ staged \in {0, generation}
    /\ \A i \in Ids : saved[i] # 0 => FileOf(i)
    /\ UnderWay /\ Settlement /\ Noticed

USE ExportAssumption DEF ExportAssumption, Ids, Runs

LEMMA Appended ==
    ASSUME NEW S, NEW s \in Seq(S), NEW e \in S
    PROVE  /\ Append(s, e) \in Seq(S)
           /\ \A k \in DOMAIN Append(s, e) : Append(s, e)[k] = e \/ \E j \in DOMAIN s : Append(s, e)[k] = s[j]
  OBVIOUS

LEMMA Taken ==
    ASSUME NEW S, NEW s \in Seq(S), s # <<>>
    PROVE  /\ Tail(s) \in Seq(S) /\ Head(s) \in S
           /\ 1 \in DOMAIN s /\ Head(s) = s[1]
           /\ \A k \in DOMAIN Tail(s) : \E j \in DOMAIN s : Tail(s)[k] = s[j]
  OBVIOUS

LEMMA EntriesHaveIds ==
    ASSUME TypeOK
    PROVE  /\ \A k \in DOMAIN toShell : toShell[k] \in Request /\ toShell[k].id \in Ids
           /\ \A b \in building : b.id \in Ids /\ b.run \in Runs
           /\ \A k \in DOMAIN toVault : toVault[k] \in Reply /\ toVault[k].id \in Ids
  <1>1. toShell \in Seq(Request) /\ toVault \in Seq(Reply) /\ building \subseteq [id : Ids, run : Runs]
    BY DEF TypeOK, Request, Reply
  <1>2. \A k \in DOMAIN toShell : toShell[k] \in Request
    BY <1>1
  <1>3. \A k \in DOMAIN toVault : toVault[k] \in Reply
    BY <1>1
  <1> QED
    BY <1>1, <1>2, <1>3 DEF Request, Reply

LEMMA InitInv == Init => IInv
  <1> SUFFICES ASSUME Init PROVE IInv
    OBVIOUS
  <1> USE DEF Init, Silent
  <1>1. generation \in 0 .. MaxRuns /\ staged \in 0 .. MaxRuns /\ sequence \in 0 .. MaxExports
    OBVIOUS
  <1>2. running \in BOOLEAN /\ waiting \subseteq Ids
    OBVIOUS
  <1>3. asked \in [Ids -> 0 .. MaxRuns] /\ saved \in [Ids -> 0 .. MaxRuns]
    OBVIOUS
  <1>4. /\ toShell \in Seq(Request) /\ building \subseteq [id : Ids, run : Runs] /\ toVault \in Seq(Reply)
    OBVIOUS
  <1>5. outcome \in [Ids -> {"idle", "waiting", "answered", "refused"}]
    OBVIOUS
  <1>6. notice \in [kind : {"none", "exported", "failed"}, id : 0 .. MaxExports]
    OBVIOUS
  <1>7. TypeOK
    <2> HIDE DEF Init
    <2> QED
      BY <1>1, <1>2, <1>3, <1>4, <1>5, <1>6 DEF TypeOK, Request, Reply
  <1>8. UnderWay /\ Settlement /\ Noticed
    BY DEF UnderWay, Settlement, Noticed
  <1> QED
    BY <1>7, <1>8 DEF IInv

(* A new generation shows no notice, and leaves what is under way alone. *)
LEMMA GenerationInv ==
    ASSUME IInv, \/ NewGeneration /\ running' \in BOOLEAN
                 \/ RunEnds
    PROVE  IInv'
  <1>1. /\ UNCHANGED <<sequence, waiting, asked, toShell, building, saved, toVault, outcome>>
        /\ notice' = Silent /\ running' \in BOOLEAN
    BY DEF NewGeneration, RunEnds, vault, shell
  <1>2. generation' \in 0 .. MaxRuns /\ staged' \in 0 .. MaxRuns /\ staged' \in {0, generation'}
    BY DEF NewGeneration, RunEnds, IInv, TypeOK
  <1>3. notice' \in [kind : {"none", "exported", "failed"}, id : 0 .. MaxExports]
    BY <1>1 DEF Silent
  <1>4. TypeOK'
    BY <1>1, <1>2, <1>3 DEF IInv, TypeOK
  <1>5. /\ \A i \in Ids : saved'[i] # 0 => FileOf(i)'
        /\ UnderWay' /\ Settlement'
    BY <1>1 DEF IInv, UnderWay, Settlement, Fits, FileOf
  <1>6. Noticed'
    BY <1>1 DEF Noticed, Silent
  <1> QED
    BY <1>2, <1>4, <1>5, <1>6 DEF IInv

(* The request carries the reports of the run it is asked in. *)
LEMMA DownloadInv ==
    ASSUME IInv, NEW f \in {"text", "xlsx"}, DownloadExport(f) PROVE IInv'
  <1> DEFINE n == sequence + 1
             request == [id |-> n, format |-> f, run |-> staged]
  <1>1. /\ TypeOK /\ UnderWay /\ Settlement /\ Noticed /\ staged = generation /\ staged # 0
        /\ \A i \in Ids : saved[i] # 0 => FileOf(i)
    BY DEF IInv, DownloadExport
  <1>2. /\ sequence' = n /\ n \in Ids /\ sequence \in Nat
        /\ asked' = [asked EXCEPT ![n] = generation]
        /\ waiting' = waiting \cup {n}
        /\ outcome' = [outcome EXCEPT ![n] = "waiting"]
        /\ toShell' = Append(toShell, request)
        /\ UNCHANGED <<generation, running, staged, building, saved, toVault, notice>>
    BY <1>1 DEF DownloadExport, shell, TypeOK
  <1>3. request \in Request
    BY <1>1, <1>2 DEF TypeOK, Request
  <1>4. toShell \in Seq(Request)
    BY <1>1 DEF TypeOK, Request
  <1>5. /\ toShell' \in Seq(Request)
        /\ \A k \in DOMAIN toShell' : toShell'[k] = request \/ \E j \in DOMAIN toShell : toShell'[k] = toShell[j]
    BY <1>2, <1>3, <1>4, Appended
  <1>6. /\ asked' \in [Ids -> 0 .. MaxRuns] /\ asked'[n] = generation
        /\ \A i \in Ids : i <= sequence => asked'[i] = asked[i]
    BY <1>1, <1>2 DEF TypeOK
  <1>7. /\ outcome' \in [Ids -> {"idle", "waiting", "answered", "refused"}] /\ outcome'[n] = "waiting"
        /\ \A i \in Ids : i # n => outcome'[i] = outcome[i]
    BY <1>1, <1>2 DEF TypeOK
  <1>8. TypeOK'
    <2>1. sequence' \in 0 .. MaxExports /\ waiting' \subseteq Ids
      BY <1>1, <1>2 DEF TypeOK
    <2>2. /\ generation' \in 0 .. MaxRuns /\ staged' \in 0 .. MaxRuns
          /\ saved' \in [Ids -> 0 .. MaxRuns] /\ building' \subseteq [id : Ids, run : Runs]
      BY <1>1, <1>2 DEF TypeOK
    <2>3. /\ running' \in BOOLEAN /\ toVault' \in Seq([id : Ids, ok : BOOLEAN])
          /\ notice' \in [kind : {"none", "exported", "failed"}, id : 0 .. MaxExports]
      BY <1>1, <1>2 DEF TypeOK
    <2> QED
      BY <1>5, <1>6, <1>7, <2>1, <2>2, <2>3 DEF TypeOK, Request
  <1>9. /\ \A k \in DOMAIN toShell : toShell[k].id \in Ids
        /\ \A b \in building : b.id \in Ids
        /\ \A k \in DOMAIN toVault : toVault[k].id \in Ids
    BY <1>1, EntriesHaveIds
  <1>10. \A k \in DOMAIN toShell' : Fits(toShell[k].id, toShell[k].run)'
    <2> SUFFICES ASSUME NEW k \in DOMAIN toShell'
                 PROVE  toShell'[k].id <= sequence' /\ toShell'[k].run = asked'[toShell'[k].id]
      BY DEF Fits
    <2>1. CASE toShell'[k] = request
      BY <2>1, <1>1, <1>2, <1>6
    <2>2. CASE \E j \in DOMAIN toShell : toShell'[k] = toShell[j]
      <3>1. PICK j \in DOMAIN toShell : toShell'[k] = toShell[j]
        BY <2>2
      <3>2. toShell[j].id \in Ids
        BY <1>9
      <3>3. toShell[j].id <= sequence /\ toShell[j].run = asked[toShell[j].id]
        BY <1>1 DEF UnderWay, Fits
      <3> QED
        BY <3>1, <3>2, <3>3, <1>2, <1>6
    <2> QED
      BY <2>1, <2>2, <1>5
  <1>11. UnderWay'
    <2>1. \A b \in building' : Fits(b.id, b.run)'
      BY <1>1, <1>2, <1>6, <1>9 DEF UnderWay, Fits
    <2>2. \A k \in DOMAIN toVault' : toVault'[k].ok => FileOf(toVault[k].id)'
      BY <1>1, <1>2, <1>6, <1>9 DEF UnderWay, FileOf
    <2> QED
      BY <1>10, <2>1, <2>2 DEF UnderWay
  <1>12. Settlement'
    BY <1>1, <1>2, <1>7 DEF Settlement
  <1>13. Noticed'
    <2>1. notice.id \in Ids /\ notice.id <= sequence => asked'[notice.id] = asked[notice.id]
      BY <1>6
    <2> QED
      BY <2>1, <1>1, <1>2 DEF Noticed, FileOf
  <1>14. \A i \in Ids : saved'[i] # 0 => FileOf(i)'
    BY <1>1, <1>2, <1>6 DEF FileOf
  <1> QED
    BY <1>1, <1>2, <1>8, <1>11, <1>12, <1>13, <1>14 DEF IInv

(* What the shell does with a request: it answers that nothing was saved,    *)
(* saves the report and answers so, or builds a workbook.                    *)
LEMMA AnswerInv ==
    ASSUME IInv, NEW id \in Ids, NEW run \in Runs, Fits(id, run), NEW ok \in BOOLEAN,
           ok => saved' = [saved EXCEPT ![id] = run], ~ok => saved' = saved,
           Answered(id, ok), building' \subseteq building,
           \/ toShell' = toShell
           \/ toShell # <<>> /\ toShell' = Tail(toShell),
           UNCHANGED <<generation, running, staged, vault, outcome, notice>>
    PROVE  IInv'
  <1> DEFINE reply == [id |-> id, ok |-> ok]
  <1>1. TypeOK /\ UnderWay /\ Settlement /\ Noticed /\ \A i \in Ids : saved[i] # 0 => FileOf(i)
    BY DEF IInv
  <1>2. UNCHANGED <<generation, running, staged, sequence, waiting, asked, outcome, notice>>
    BY DEF vault
  <1>3. reply \in Reply /\ toVault \in Seq(Reply) /\ toShell \in Seq(Request)
    BY <1>1 DEF TypeOK, Request, Reply
  <1>4. /\ toVault' \in Seq(Reply)
        /\ \A k \in DOMAIN toVault' : toVault'[k] = reply \/ \E j \in DOMAIN toVault : toVault'[k] = toVault[j]
    BY <1>3, Appended DEF Answered
  <1>5. /\ toShell' \in Seq(Request)
        /\ \A k \in DOMAIN toShell' : \E j \in DOMAIN toShell : toShell'[k] = toShell[j]
    <2>1. CASE toShell' = toShell
      BY <2>1, <1>3
    <2>2. CASE toShell # <<>> /\ toShell' = Tail(toShell)
      BY <2>2, <1>3, Taken
    <2> QED
      BY <2>1, <2>2
  <1>6. /\ saved' \in [Ids -> 0 .. MaxRuns] /\ (ok => saved'[id] = asked[id] /\ asked[id] # 0)
        /\ \A i \in Ids : saved'[i] = saved[i] \/ (i = id /\ saved'[i] = asked[i] /\ asked[i] # 0)
    <2>1. saved \in [Ids -> 0 .. MaxRuns] /\ run = asked[id] /\ run # 0 /\ run \in 0 .. MaxRuns
      <3>1. saved \in [Ids -> 0 .. MaxRuns]
        BY <1>1 DEF TypeOK
      <3>2. run = asked[id]
        BY DEF Fits
      <3>3. run # 0 /\ run \in 0 .. MaxRuns
        OBVIOUS
      <3> QED
        BY <3>1, <3>2, <3>3
    <2>2. CASE ok
      <3>1. saved' = [saved EXCEPT ![id] = run]
        BY <2>2
      <3> QED
        BY <2>1, <3>1
    <2>3. CASE ~ok
      <3>1. saved' = saved
        BY <2>3
      <3> QED
        BY <2>1, <2>3, <3>1
    <2> QED
      BY <2>2, <2>3
  <1>7. \A i \in Ids : saved'[i] # 0 => i <= sequence /\ saved'[i] = asked[i]
    BY <1>1, <1>6 DEF FileOf, Fits
  <1>8. \A i \in Ids : FileOf(i) => saved'[i] = asked[i] /\ saved'[i] # 0
    BY <1>6 DEF FileOf
  <1>9. /\ \A k \in DOMAIN toShell : toShell[k].id \in Ids
        /\ \A k \in DOMAIN toVault : toVault[k].id \in Ids
    BY <1>1, EntriesHaveIds
  <1>10. TypeOK'
    <2>1. building' \subseteq [id : Ids, run : Runs]
      BY <1>1 DEF TypeOK
    <2>2. /\ generation' \in 0 .. MaxRuns /\ staged' \in 0 .. MaxRuns /\ running' \in BOOLEAN
          /\ sequence' \in 0 .. MaxExports /\ waiting' \subseteq Ids
      BY <1>1, <1>2 DEF TypeOK
    <2>3. /\ asked' \in [Ids -> 0 .. MaxRuns]
          /\ outcome' \in [Ids -> {"idle", "waiting", "answered", "refused"}]
          /\ notice' \in [kind : {"none", "exported", "failed"}, id : 0 .. MaxExports]
      BY <1>1, <1>2 DEF TypeOK
    <2> QED
      BY <1>4, <1>5, <1>6, <2>1, <2>2, <2>3 DEF TypeOK, Request, Reply
  <1>11. UnderWay'
    <2>1. \A k \in DOMAIN toShell' : Fits(toShell[k].id, toShell[k].run)'
      BY <1>1, <1>2, <1>5 DEF UnderWay, Fits
    <2>2. \A b \in building' : Fits(b.id, b.run)'
      BY <1>1, <1>2 DEF UnderWay, Fits
    <2>3. ASSUME NEW k \in DOMAIN toVault', toVault'[k].ok PROVE FileOf(toVault[k].id)'
      <3>1. CASE toVault'[k] = reply
        BY <2>3, <3>1, <1>2, <1>6 DEF FileOf, Fits
      <3>2. CASE \E j \in DOMAIN toVault : toVault'[k] = toVault[j]
        BY <2>3, <3>2, <1>1, <1>2, <1>8, <1>9 DEF UnderWay, FileOf
      <3> QED
        BY <3>1, <3>2, <1>4
    <2> QED
      BY <2>1, <2>2, <2>3 DEF UnderWay
  <1>12. Settlement'
    BY <1>1, <1>2, <1>6 DEF Settlement
  <1>13. Noticed'
    <2>1. notice.kind = "exported" => notice.id \in Ids /\ FileOf(notice.id)
      BY <1>1 DEF Noticed
    <2>2. (notice.kind = "exported" => FileOf(notice.id))'
      BY <2>1, <1>2, <1>8 DEF FileOf
    <2> QED
      BY <2>2, <1>1, <1>2 DEF Noticed
  <1> QED
    BY <1>1, <1>2, <1>7, <1>10, <1>11, <1>12, <1>13, <1>6 DEF IInv, FileOf

LEMMA HandleInv == ASSUME IInv, HandleVaultMessage PROVE IInv'
  <1> DEFINE request == Head(toShell)
  <1>1. TypeOK /\ UnderWay /\ toShell # <<>> /\ toShell' = Tail(toShell)
    BY DEF IInv, HandleVaultMessage
  <1>2. toShell \in Seq(Request)
    BY <1>1 DEF TypeOK, Request
  <1>3. /\ request \in Request /\ toShell' \in Seq(Request)
        /\ \A k \in DOMAIN toShell' : \E j \in DOMAIN toShell : toShell'[k] = toShell[j]
        /\ Fits(request.id, request.run)
    BY <1>1, <1>2, Taken DEF UnderWay
  <1>4. request.id \in Ids /\ request.run \in Runs
    BY <1>3 DEF Request
  <1>5. UNCHANGED <<generation, running, staged, vault, outcome, notice>>
    BY DEF HandleVaultMessage
  <1>6. CASE Answered(request.id, FALSE) /\ UNCHANGED shell
    BY <1>1, <1>3, <1>4, <1>5, <1>6, AnswerInv DEF shell
  <1>7. CASE Saved(request.id, request.run) /\ UNCHANGED building
    BY <1>1, <1>3, <1>4, <1>5, <1>7, AnswerInv DEF Saved
  <1>8. CASE /\ building' = building \cup {[id |-> request.id, run |-> request.run]}
             /\ UNCHANGED <<saved, toVault>>
    <2>1. UNCHANGED <<generation, running, staged, sequence, waiting, asked, saved, toVault, outcome, notice>>
      BY <1>5, <1>8 DEF vault
    <2>2. TypeOK'
      <3>1. building' \subseteq [id : Ids, run : Runs]
        <4>1. building \subseteq [id : Ids, run : Runs]
          BY <1>1 DEF TypeOK
        <4>2. [id |-> request.id, run |-> request.run] \in [id : Ids, run : Runs]
          BY <1>4
        <4> QED
          BY <4>1, <4>2, <1>8
      <3>2. toShell' \in Seq([id : Ids, format : {"text", "xlsx"}, run : Runs])
        BY <1>3 DEF Request
      <3> QED
        BY <1>1, <2>1, <3>1, <3>2 DEF TypeOK
    <2>3. UnderWay'
      <3>1. \A k \in DOMAIN toShell' : Fits(toShell[k].id, toShell[k].run)'
        BY <1>1, <1>3, <2>1 DEF UnderWay, Fits
      <3>2. \A b \in building' : Fits(b.id, b.run)'
        BY <1>1, <1>3, <1>8, <2>1 DEF UnderWay, Fits
      <3>3. \A k \in DOMAIN toVault' : toVault'[k].ok => FileOf(toVault[k].id)'
        BY <1>1, <2>1 DEF UnderWay, FileOf
      <3> QED
        BY <3>1, <3>2, <3>3 DEF UnderWay
    <2> QED
      BY <2>1, <2>2, <2>3 DEF IInv, Settlement, Noticed, FileOf
  <1> QED
    BY <1>6, <1>7, <1>8 DEF HandleVaultMessage

LEMMA WorkbookInv == ASSUME IInv, NEW b \in building, WorkbookEnds(b) PROVE IInv'
  <1>1. b.id \in Ids /\ b.run \in Runs /\ Fits(b.id, b.run) /\ building' \subseteq building
    BY EntriesHaveIds DEF IInv, UnderWay, WorkbookEnds
  <1>2. toShell' = toShell /\ UNCHANGED <<generation, running, staged, vault, outcome, notice>>
    BY DEF WorkbookEnds
  <1>3. CASE Saved(b.id, b.run)
    BY <1>1, <1>2, <1>3, AnswerInv DEF Saved
  <1>4. CASE Answered(b.id, FALSE) /\ UNCHANGED saved
    BY <1>1, <1>2, <1>4, AnswerInv
  <1> QED
    BY <1>3, <1>4 DEF WorkbookEnds

(* A promise that settles: as answered only when its file was saved.         *)
LEMMA SettlesInv ==
    ASSUME IInv, NEW id \in waiting,
           \/ Settles(id, "answered", "exported") /\ FileOf(id)
           \/ Settles(id, "refused", "failed"),
           \/ toVault' = toVault
           \/ toVault # <<>> /\ toVault' = Tail(toVault),
           UNCHANGED <<generation, running, staged, sequence, asked, toShell, shell>>
    PROVE  IInv'
  <1>1. /\ TypeOK /\ UnderWay /\ Settlement /\ Noticed /\ id \in Ids
        /\ \A i \in Ids : saved[i] # 0 => FileOf(i)
    BY DEF IInv, TypeOK
  <1>2. UNCHANGED <<generation, running, staged, sequence, asked, toShell, building, saved>>
    BY DEF shell
  <1>3. PICK how \in {"answered", "refused"}, kind \in {"exported", "failed"} :
          /\ waiting' = waiting \ {id} /\ outcome' = [outcome EXCEPT ![id] = how] /\ Notes(id, kind)
          /\ how = "answered" \/ kind = "exported" => FileOf(id)
    BY DEF Settles
  <1>4. id <= sequence
    <2>1. outcome[id] = "waiting"
      BY <1>1 DEF Settlement
    <2> QED
      BY <2>1, <1>1 DEF Settlement, TypeOK
  <1>5. /\ outcome' \in [Ids -> {"idle", "waiting", "answered", "refused"}] /\ outcome'[id] = how
        /\ \A i \in Ids : i # id => outcome'[i] = outcome[i]
    BY <1>1, <1>3 DEF TypeOK
  <1>6. toVault \in Seq(Reply)
    BY <1>1 DEF TypeOK, Reply
  <1>7. /\ toVault' \in Seq(Reply)
        /\ \A k \in DOMAIN toVault' : \E j \in DOMAIN toVault : toVault'[k] = toVault[j]
    BY <1>6, Taken
  <1>8. \/ notice' = notice
        \/ notice' = [kind |-> kind, id |-> id] /\ asked[id] = generation
    BY <1>3 DEF Notes
  <1>9. TypeOK'
    <2>1. notice' \in [kind : {"none", "exported", "failed"}, id : 0 .. MaxExports]
      BY <1>1, <1>8 DEF TypeOK
    <2>2. waiting' \subseteq Ids
      BY <1>1, <1>3 DEF TypeOK
    <2>3. toVault' \in Seq([id : Ids, ok : BOOLEAN])
      BY <1>7 DEF Reply
    <2> QED
      BY <1>1, <1>2, <1>5, <2>1, <2>2, <2>3 DEF TypeOK
  <1>10. UnderWay'
    <2>1. \A k \in DOMAIN toShell' : Fits(toShell[k].id, toShell[k].run)'
      BY <1>1, <1>2 DEF UnderWay, Fits
    <2>2. \A b \in building' : Fits(b.id, b.run)'
      BY <1>1, <1>2 DEF UnderWay, Fits
    <2>3. \A k \in DOMAIN toVault' : toVault'[k].ok => FileOf(toVault[k].id)'
      BY <1>1, <1>2, <1>7 DEF UnderWay, FileOf
    <2> QED
      BY <2>1, <2>2, <2>3 DEF UnderWay
  <1>11. Settlement'
    <2>1. outcome[id] = "waiting"
      BY <1>1 DEF Settlement
    <2>2. how = "answered" => saved[id] # 0
      BY <1>3 DEF FileOf
    <2> QED
      BY <2>1, <2>2, <1>1, <1>2, <1>3, <1>4, <1>5 DEF Settlement
  <1>12. Noticed'
    <2>1. CASE notice' = notice
      BY <2>1, <1>1, <1>2 DEF Noticed, FileOf
    <2>2. CASE notice' = [kind |-> kind, id |-> id] /\ asked[id] = generation
      BY <2>2, <1>1, <1>2, <1>3, <1>4 DEF Noticed, FileOf
    <2> QED
      BY <2>1, <2>2, <1>8
  <1> QED
    BY <1>1, <1>2, <1>9, <1>10, <1>11, <1>12 DEF IInv, FileOf

LEMMA ReceiveInv == ASSUME IInv, ReceiveAnswer PROVE IInv'
  <1> DEFINE answer == Head(toVault)
  <1>1. /\ TypeOK /\ UnderWay /\ Settlement /\ Noticed /\ toVault # <<>> /\ toVault' = Tail(toVault)
        /\ UNCHANGED <<generation, running, staged, sequence, asked, toShell, shell>>
    BY DEF IInv, ReceiveAnswer
  <1>2. toVault \in Seq(Reply)
    BY <1>1 DEF TypeOK, Reply
  <1>3. /\ toVault' \in Seq(Reply) /\ answer = toVault[1] /\ 1 \in DOMAIN toVault
        /\ \A k \in DOMAIN toVault' : \E j \in DOMAIN toVault : toVault'[k] = toVault[j]
    BY <1>1, <1>2, Taken
  <1>4. answer.ok => FileOf(answer.id)
    BY <1>1, <1>3 DEF UnderWay
  <1>5. CASE answer.id \in waiting
    <2>1. \/ answer.ok /\ Settles(answer.id, "answered", "exported")
          \/ Settles(answer.id, "refused", "failed")
      BY <1>5 DEF ReceiveAnswer
    <2> QED
      BY <2>1, <1>1, <1>4, <1>5, SettlesInv
  <1>6. CASE answer.id \notin waiting
    <2>1. UNCHANGED <<generation, running, staged, sequence, asked, toShell, building, saved, waiting, outcome, notice>>
      BY <1>1, <1>6 DEF ReceiveAnswer, shell
    <2>2. toVault' \in Seq([id : Ids, ok : BOOLEAN])
      BY <1>3 DEF Reply
    <2>3. TypeOK'
      BY <2>1, <2>2, <1>1 DEF TypeOK
    <2>4. UnderWay'
      <3>1. \A k \in DOMAIN toShell' : Fits(toShell[k].id, toShell[k].run)'
        BY <1>1, <2>1 DEF UnderWay, Fits
      <3>2. \A b \in building' : Fits(b.id, b.run)'
        BY <1>1, <2>1 DEF UnderWay, Fits
      <3>3. \A k \in DOMAIN toVault' : toVault'[k].ok => FileOf(toVault[k].id)'
        BY <1>1, <2>1, <1>3 DEF UnderWay, FileOf
      <3> QED
        BY <3>1, <3>2, <3>3 DEF UnderWay
    <2> QED
      BY <2>1, <2>3, <2>4 DEF IInv, Settlement, Noticed, FileOf
  <1> QED
    BY <1>5, <1>6

LEMMA StillInv == ASSUME IInv, UNCHANGED vars PROVE IInv'
  <1>1. /\ UNCHANGED <<generation, running, staged, sequence, waiting, asked, toShell, building>>
        /\ UNCHANGED <<saved, toVault, outcome, notice>>
    BY DEF vars, vault, shell
  <1>2. TypeOK'
    BY <1>1 DEF IInv, TypeOK
  <1>3. UnderWay' /\ Settlement' /\ Noticed'
    BY <1>1 DEF IInv, UnderWay, Fits, FileOf, Settlement, Noticed
  <1> QED
    BY <1>1, <1>2, <1>3 DEF IInv, FileOf

LEMMA StepInv == ASSUME IInv, [Next]_vars PROVE IInv'
  <1>1. CASE OpenRun
    BY <1>1, GenerationInv DEF OpenRun
  <1>2. CASE ClearScanner
    <2>1. NewGeneration /\ running' \in BOOLEAN
      BY <1>2 DEF ClearScanner, IInv, TypeOK
    <2> QED
      BY <2>1, GenerationInv
  <1>3. CASE RunEnds
    BY <1>3, GenerationInv
  <1>4. CASE \E f \in {"text", "xlsx"} : DownloadExport(f)
    BY <1>4, DownloadInv
  <1>5. CASE HandleVaultMessage
    BY <1>5, HandleInv
  <1>6. CASE \E b \in building : WorkbookEnds(b)
    BY <1>6, WorkbookInv
  <1>7. CASE ReceiveAnswer
    BY <1>7, ReceiveInv
  <1>8. CASE \E id \in Ids : TimeOut(id)
    BY <1>8, SettlesInv DEF TimeOut
  <1>9. CASE UNCHANGED vars
    BY <1>9, StillInv
  <1> QED
    BY <1>1, <1>2, <1>3, <1>4, <1>5, <1>6, <1>7, <1>8, <1>9 DEF Next

LEMMA Invariance == Spec => []IInv
  BY InitInv, StepInv, PTL DEF Spec

(* A file the page calls exported was saved, with the reports of the run it  *)
(* shows: for any number of runs, clears, reports and late answers.          *)
THEOREM TrueNotice == Spec => []NoticeIsTrue
  <1>1. ASSUME IInv PROVE NoticeIsTrue
    BY <1>1 DEF IInv, Noticed, FileOf, NoticeIsTrue
  <1> QED
    BY <1>1, Invariance, PTL

----------------------------------------------------------------------------
(* The refinement.  The promise of an id depends on its outcome alone.       *)

Value == [i \in Ids |-> IF outcome[i] = "answered" /\ saved[i] # 0 THEN i ELSE 0]
Given == [i \in Ids |-> IF outcome[i] = "answered" THEN i ELSE 0]

LEMMA ValueIsGiven ==
    ASSUME IInv PROVE Value = Given
  BY DEF IInv, Settlement, Value, Given

LEMMA ValueIsGivenAfter ==
    ASSUME IInv' PROVE Value' = Given'
  BY DEF IInv, Settlement, Value, Given

LEMMA InitRefines == Init => Promise!Init
  BY DEF Init, Promise!Init

LEMMA SettlesRefines ==
    ASSUME IInv, IInv', NEW id \in Ids, outcome[id] = "waiting",
           \/ outcome' = [outcome EXCEPT ![id] = "answered"]
           \/ outcome' = [outcome EXCEPT ![id] = "refused"]
    PROVE  Promise!Next
  <1>1. outcome \in [Ids -> {"idle", "waiting", "answered", "refused"}]
    BY DEF IInv, TypeOK
  <1>2. Value = Given /\ Value' = Given'
    BY ValueIsGiven, ValueIsGivenAfter
  <1>3. CASE outcome' = [outcome EXCEPT ![id] = "answered"]
    <2>1. Given' = [Given EXCEPT ![id] = id]
      BY <1>1, <1>3 DEF Given
    <2>2. Value' = [Value EXCEPT ![id] = id]
      BY <2>1, <1>2
    <2>3. Promise!Answer(id)
      BY <2>2, <1>3 DEF Promise!Answer, Value
    <2> QED
      BY <2>3 DEF Promise!Next
  <1>4. CASE outcome' = [outcome EXCEPT ![id] = "refused"]
    <2>1. Given' = Given
      BY <1>1, <1>4 DEF Given
    <2>2. Value' = Value
      BY <2>1, <1>2
    <2>3. outcome' = [c \in Ids |-> IF c \in {id} THEN "refused" ELSE outcome[c]]
      BY <1>1, <1>4
    <2>4. Promise!Refuse({id})
      BY <2>2, <2>3 DEF Promise!Refuse, Value
    <2> QED
      BY <2>4 DEF Promise!Next
  <1> QED
    BY <1>3, <1>4

LEMMA DownloadRefines ==
    ASSUME IInv, IInv', NEW f \in {"text", "xlsx"}, DownloadExport(f)
    PROVE  Promise!Next
  <1> DEFINE n == sequence + 1
  <1>1. n \in Ids /\ outcome' = [outcome EXCEPT ![n] = "waiting"] /\ saved' = saved
    BY DEF DownloadExport, shell, IInv, TypeOK
  <1>2. outcome[n] = "idle" /\ outcome \in [Ids -> {"idle", "waiting", "answered", "refused"}]
    BY <1>1 DEF IInv, Settlement, TypeOK
  <1>3. Value' = Value
    BY <1>1, <1>2 DEF Value
  <1>4. Promise!Settle(n, "waiting")
    BY <1>1, <1>3 DEF Promise!Settle, Value
  <1>5. Promise!Ask(n)
    BY <1>2, <1>4 DEF Promise!Ask
  <1> QED
    BY <1>1, <1>5 DEF Promise!Next

LEMMA StepRefines ==
    ASSUME IInv, IInv', [Next]_vars PROVE [Promise!Next]_(Promise!promise)
  <1>1. CASE outcome' = outcome
    <2>1. Given' = Given
      BY <1>1 DEF Given
    <2>2. Value' = Value
      BY <2>1, ValueIsGiven, ValueIsGivenAfter
    <2> QED
      BY <2>2, <1>1 DEF Promise!promise, Value
  <1>2. CASE \E f \in {"text", "xlsx"} : DownloadExport(f)
    BY <1>2, DownloadRefines
  <1>3. CASE ReceiveAnswer /\ outcome' # outcome
    <2> DEFINE id == Head(toVault).id
    <2>1. /\ id \in waiting
          /\ \/ outcome' = [outcome EXCEPT ![id] = "answered"]
             \/ outcome' = [outcome EXCEPT ![id] = "refused"]
      BY <1>3 DEF ReceiveAnswer, Settles
    <2>2. id \in Ids /\ outcome[id] = "waiting"
      BY <2>1 DEF IInv, TypeOK, Settlement
    <2> QED
      BY <2>1, <2>2, SettlesRefines
  <1>4. CASE \E id \in Ids : TimeOut(id)
    <2>1. PICK id \in Ids : id \in waiting /\ outcome' = [outcome EXCEPT ![id] = "refused"]
      BY <1>4 DEF TimeOut, Settles
    <2>2. outcome[id] = "waiting"
      BY <2>1 DEF IInv, Settlement
    <2> QED
      BY <2>1, <2>2, SettlesRefines
  <1>5. CASE OpenRun \/ ClearScanner \/ RunEnds \/ HandleVaultMessage
    BY <1>5, <1>1 DEF OpenRun, ClearScanner, NewGeneration, RunEnds, HandleVaultMessage
  <1>6. CASE \E b \in building : WorkbookEnds(b)
    BY <1>6, <1>1 DEF WorkbookEnds
  <1>7. CASE UNCHANGED vars
    BY <1>7, <1>1 DEF vars
  <1> QED
    BY <1>1, <1>2, <1>3, <1>4, <1>5, <1>6, <1>7 DEF Next

(* Each export settles once and for good, answered only with a saved file,   *)
(* however the shell delays, reorders or refuses, and whenever timers fire.  *)
THEOREM RefinesRemoteCalls == Spec => ImplementsRemoteCalls
  <1>1. IInv /\ IInv' /\ [Next]_vars => [Promise!Next]_(Promise!promise)
    BY StepRefines
  <1> QED
    BY <1>1, InitRefines, Invariance, PTL DEF Spec, ImplementsRemoteCalls, Promise!Spec
=============================================================================
