-------------------------- MODULE PortalPagesProofs --------------------------
(***************************************************************************)
(* The safety properties of the pages a developer works with, for every    *)
(* number of operations, parameters, texts and steps, and what is read of  *)
(* a specification of any size.  The pages share no variable, so each has  *)
(* an inductive invariant of its own: ConsoleInv, CatalogInv, ShellInv     *)
(* with PaletteInv, DocumentTyped with DocumentRead.  The last part of the *)
(* module puts their steps together (PageSteps).                           *)
(***************************************************************************)
EXTENDS PortalPages, Integers, FiniteSetTheorems, SequenceTheorems, TLAPS

(* The try-it console *)

\* An entry of the history; what its details tell was checked before it was sent.
Kept == [op: Operation, details: T!Details \cup {None}]
Checked(e) == e.details # None => T!validateParameters(e.details.values) = {}

ConsoleTyped ==
    /\ op \in Operation /\ visited \subseteq Operation
    /\ form \in [values: T!Values, body: T!Body, contentType: T!ContentType, extra: SUBSET Extra]
    /\ errors \subseteq Param \cup {"body"}
    /\ mounted \in BOOLEAN /\ aborted \in BOOLEAN /\ sending \in BOOLEAN /\ wait \in BOOLEAN
    /\ saveDetails \in BOOLEAN
    /\ request \in T!Request \cup {None} /\ result \in T!Request \cup {None}
    /\ answer \in T!Failures \cup {"none", "ok"}
    /\ failure \in T!Failures \cup {"none"}
    /\ steps \in 0..MaxSteps

\* The two stores of the history: what is kept for each operation, and what is on show.
HistoryTyped ==
    /\ store \in [Operation -> Seq(Kept)] /\ history \in Seq(Kept)
    /\ \A o \in Operation : Len(store[o]) <= HistoryLimit

\* TypeOK and HistoryIsWhatWasSent are not inductive: the button is busy exactly while there
\* is a request, and the request under way passed the checks when it was made.
Calling ==
    /\ sending <=> request # None
    /\ request # None => T!validateParameters(request.values) = {}
HistoryTold ==
    \A o \in Operation : \A i \in 1..Len(store[o]) : store[o][i].op = o /\ Checked(store[o][i])
ConsoleInv == ConsoleTyped /\ HistoryTyped /\ Calling /\ HistoryTold

\* What the console promises of one step: Exchange makes it too, or nothing it tells changes.
KeysApart == \A o, p \in Operation : o # p => KeyOf[o] # KeyOf[p]
ExchangeStep == [T!Promise!Next]_<<op, IF sending THEN request ELSE None, result>>

\* What the console needs of its constants.
LEMMA TcConstants ==
    /\ Given \in [Param -> T!Value]
    /\ HistoryLimit \in Nat /\ HistoryLimit >= 1 /\ MaxSteps \in Nat
    /\ None \notin T!Request /\ None \notin T!Details
<1> USE ConsoleAssumption DEF T!ConsoleAssumption
<1>1. Given \in [Param -> T!Value] BY DEF T!Value
<1>2. HistoryLimit \in Nat /\ HistoryLimit # 0 /\ MaxSteps \in Nat BY Zenon
<1>3. None \notin T!Request /\ None \notin T!Details BY Zenon
<1> HIDE ConsoleAssumption
<1> QED BY <1>1, <1>2, <1>3

\* A new form has the types of a form, and what is sent is a request of the operation on show.
LEMMA FormsTyped ==
    /\ T!NewForm \in [values: T!Values, body: T!Body, contentType: T!ContentType, extra: SUBSET Extra]
    /\ ConsoleTyped => /\ T!Sent \in T!Request /\ T!Sent.op = op /\ T!Sent.values = form.values
                       /\ T!validate(form) \subseteq Param \cup {"body"}
                       /\ T!validateParameters(form.values) \subseteq T!validate(form)
<1>1. T!NewForm \in [values: T!Values, body: T!Body, contentType: T!ContentType, extra: SUBSET Extra]
  BY TcConstants DEF T!NewForm, T!Values, T!Body, T!ContentType, T!initialBody, T!parameterDefault
<1> SUFFICES ASSUME ConsoleTyped
             PROVE  /\ T!Sent \in T!Request /\ T!Sent.op = op /\ T!Sent.values = form.values
                    /\ T!validate(form) \subseteq Param \cup {"body"}
                    /\ T!validateParameters(form.values) \subseteq T!validate(form)
  BY <1>1
<1>2. T!requestHeaders(form.values, form.extra) \in SUBSET (Param \cup Extra)
  BY DEF T!requestHeaders, ConsoleTyped
<1>3. T!Sent \in T!Request /\ T!Sent.op = op /\ T!Sent.values = form.values
  BY <1>2 DEF T!Sent, T!Request, ConsoleTyped
<1>4. T!validateParameters(form.values) \subseteq T!validate(form)
      /\ T!validate(form) \subseteq Param \cup {"body"}
  BY DEF T!validate, T!validateParameters
<1> QED BY <1>3, <1>4

\* The console starts in its invariant.
LEMMA ConsoleInitial == PagesInit => ConsoleInv
<1> SUFFICES ASSUME T!Init PROVE ConsoleInv BY DEF PagesInit
<1> USE DEF T!Init
<1>1. T!NewForm \in [values: T!Values, body: T!Body, contentType: T!ContentType, extra: SUBSET Extra]
  BY FormsTyped
<1>2. ConsoleTyped
  <2>1. 0 \in 0..MaxSteps BY TcConstants
  <2> QED BY <1>1, <2>1, Zenon DEF ConsoleTyped, T!Failures
<1>3. <<>> \in Seq(Kept) /\ Len(<<>>) = 0 BY EmptySeq
<1>4. store = [o \in Operation |-> <<>>] /\ history = <<>> OBVIOUS
<1>5. HistoryTyped BY <1>3, <1>4, TcConstants DEF HistoryTyped
<1>6. Calling BY Zenon DEF Calling
<1>7. HistoryTold BY <1>3, <1>4 DEF HistoryTold
<1> QED BY <1>2, <1>5, <1>6, <1>7 DEF ConsoleInv

\* What is not written stays as it was.
LEMMA HistoryStays ==
    ASSUME HistoryTyped, HistoryTold, store' = store,
           history' = history \/ \E o \in Operation : history' = store[o]
    PROVE  HistoryTyped' /\ HistoryTold'
<1>1. HistoryTyped' BY DEF HistoryTyped
<1>2. HistoryTold' BY Zenon DEF HistoryTold, Checked
<1> QED BY <1>1, <1>2

LEMMA CallStays ==
    ASSUME UNCHANGED <<op, sending, request, result>>
    PROVE  (Calling => Calling') /\ ExchangeStep
<1>1. Calling => Calling' BY Zenon DEF Calling
<1>2. UNCHANGED <<op, IF sending THEN request ELSE None, result>> OBVIOUS
<1> QED BY <1>1, <1>2, Zenon DEF ExchangeStep

\* A new form: what Mount leaves alone stays as it was.
LEMMA MountStep ==
    ASSUME ConsoleInv, NEW o \in Operation, T!Mount(o), UNCHANGED <<store, saveDetails>>,
           op' \in Operation, visited' \subseteq Operation, mounted' \in BOOLEAN, steps' \in 0..MaxSteps
    PROVE  ConsoleInv'
<1> USE DEF ConsoleInv, T!Mount
<1>1. T!NewForm \in [values: T!Values, body: T!Body, contentType: T!ContentType, extra: SUBSET Extra]
  BY FormsTyped
<1>2. ConsoleTyped' BY <1>1, Zenon DEF ConsoleTyped, T!Failures
<1>3. Calling' BY Zenon DEF Calling
<1>4. HistoryTyped' /\ HistoryTold' BY HistoryStays
<1> QED BY <1>2, <1>3, <1>4

\* An answered request goes to the front of its operation's history, the oldest entry goes.
LEMMA AddHistory ==
    ASSUME ConsoleInv, request # None
    PROVE  LET h == T!addHistory(request)
           IN  /\ h \in Seq(Kept) /\ Len(h) <= HistoryLimit
               /\ \A i \in 1..Len(h) : h[i].op = request.op /\ Checked(h[i])
<1> USE DEF ConsoleInv
<1> DEFINE e == T!Entry(request, saveDetails)
           old == store[request.op]
           entries == <<e>> \o old
           n == IF Len(entries) < HistoryLimit THEN Len(entries) ELSE HistoryLimit
<1>1. request \in T!Request /\ request.op \in Operation BY DEF ConsoleTyped, T!Request
<1>2. [values |-> request.values, body |-> request.body] \in T!Details
  BY <1>1 DEF T!Request, T!Details
<1>3. e \in Kept /\ e.op = request.op /\ Checked(e)
  BY <1>1, <1>2 DEF T!Entry, Kept, Checked, Calling
<1> HIDE DEF e
<1>4. old \in Seq(Kept) /\ \A i \in 1..Len(old) : old[i].op = request.op /\ Checked(old[i])
  BY <1>1 DEF HistoryTyped, HistoryTold
<1> HIDE DEF old
<1>5. <<e>> \in Seq(Kept) /\ Len(<<e>>) = 1 /\ <<e>>[1] = e BY <1>3
<1>6. /\ entries \in Seq(Kept) /\ Len(entries) = 1 + Len(old)
      /\ \A i \in 1..Len(entries) : entries[i] = IF i <= 1 THEN e ELSE old[i - 1]
  BY <1>4, <1>5, ConcatProperties
<1> HIDE DEF entries
<1>7. Len(old) \in Nat BY <1>4
<1>8. \A i \in 1..Len(entries) : entries[i].op = request.op /\ Checked(entries[i])
  <2> TAKE i \in 1..Len(entries)
  <2>1. i <= 1 \/ i - 1 \in 1..Len(old) BY <1>6, <1>7
  <2> QED BY <1>3, <1>4, <1>6, <2>1
<1>9. n \in 1..Len(entries) /\ n <= HistoryLimit BY <1>6, <1>7, TcConstants
<1>10. \A i \in 1..n : entries[i] \in Kept BY <1>6, <1>9, ElementOfSeq
<1> HIDE DEF n
<1>11. n \in Int /\ 1 <= n BY <1>9
<1>12. /\ SubSeq(entries, 1, n) \in Seq(Kept) /\ Len(SubSeq(entries, 1, n)) = n
       /\ \A i \in 1..n : SubSeq(entries, 1, n)[i] = entries[i]
  BY <1>10, <1>11, SubSeqProperties
<1>13. T!addHistory(request) = SubSeq(entries, 1, n) BY Zenon DEF T!addHistory, entries, n, e, old
<1> QED BY <1>8, <1>9, <1>12, <1>13

\* Editing changes the form and the problems shown, and nothing that is sent or kept.
LEMMA FillStep ==
    ASSUME ConsoleInv, T!Fill
    PROVE  ConsoleInv' /\ UNCHANGED <<op, sending, request, result>>
<1> USE DEF ConsoleInv
<1> DEFINE Form == [values: T!Values, body: T!Body, contentType: T!ContentType, extra: SUBSET Extra]
           Edited == form' \in Form /\ errors' \subseteq Param \cup {"body"}
<1>1. T!validate(form) \subseteq Param \cup {"body"} /\ errors \subseteq Param \cup {"body"}
  BY FormsTyped DEF ConsoleTyped
<1>2. form \in Form BY DEF ConsoleTyped
<1>3. Edited
  <2>1. ASSUME NEW p \in Param, T!Blur(p) PROVE Edited
    BY <1>1, <1>2, <2>1 DEF T!Blur
  <2>2. ASSUME NEW p \in Param, NEW v \in T!Value, T!Edit(p, v) PROVE Edited
    BY <1>1, <1>2, <2>2 DEF T!Edit, T!Values
  <2>3. ASSUME NEW b \in T!Body, T!EditBody(b) PROVE Edited
    BY <1>1, <1>2, <2>3 DEF T!EditBody
  <2>4. ASSUME NEW c \in T!ContentType, T!SetContentType(c) PROVE Edited
    <3>1. T!initialBody(c) \in T!Body BY DEF T!initialBody, T!Body
    <3> QED BY <1>1, <1>2, <2>4, <3>1 DEF T!SetContentType
  <2>5. ASSUME NEW h \in Extra, T!ToggleHeader(h) PROVE Edited
    BY <1>1, <1>2, <2>5 DEF T!ToggleHeader
  <2>6. CASE T!Format BY <1>1, <1>2, <2>6 DEF T!Format
  <2>7. CASE T!Restore
    <3>1. PICK i \in 1..Len(history) :
            /\ history[i].details # None
            /\ form' = [form EXCEPT !.values = history[i].details.values, !.body = history[i].details.body]
      BY <2>7 DEF T!Restore
    <3>2. history[i] \in Kept BY <3>1, ElementOfSeq DEF HistoryTyped
    <3>3. history[i].details \in T!Details BY <3>1, <3>2 DEF Kept
    <3>4. history[i].details.values \in T!Values /\ history[i].details.body \in T!Body
      BY <3>3 DEF T!Details
    <3> QED BY <1>1, <1>2, <2>7, <3>1, <3>4 DEF T!Restore
  <2> QED BY <2>1, <2>2, <2>3, <2>4, <2>5, <2>6, <2>7 DEF T!Fill
<1>4. T!Unsent /\ T!Step
  BY Zenon DEF T!Fill, T!Blur, T!Edit, T!EditBody, T!SetContentType, T!ToggleHeader, T!Format,
               T!Restore
<1>5. steps' \in 0..MaxSteps BY <1>4, TcConstants DEF T!Step, ConsoleTyped
<1>6. UNCHANGED <<op, mounted, visited, request, answer, aborted, sending, result, failure, wait,
                  store, history, saveDetails>>
  BY <1>4, Zenon DEF T!Unsent, T!callVars
<1>7. ConsoleTyped' BY <1>3, <1>5, <1>6, Zenon DEF ConsoleTyped
<1> QED BY <1>6, <1>7, HistoryStays, CallStays, Zenon

\* Steps that send, answer and give up.
LEMMA CallStep ==
    ASSUME ConsoleInv, T!Send \/ T!Invoke \/ T!Cancel \/ T!Answered \/ T!Cancelled \/ T!WaitOver
    PROVE  ConsoleInv' /\ ExchangeStep
<1> USE DEF ConsoleInv
<1>1. CASE T!Send
  <2> USE <1>1 DEF T!Send
  <2>1. UNCHANGED <<op, store, history>> /\ ~sending /\ steps' \in 0..MaxSteps
    BY TcConstants DEF T!Step, ConsoleTyped
  <2>2. ConsoleTyped'
    <3>1. CASE errors' # {} BY <2>1, <3>1, FormsTyped DEF ConsoleTyped
    <3>2. CASE errors' = {} BY <2>1, <3>2, FormsTyped, Zenon DEF ConsoleTyped, T!Failures
    <3> QED BY <3>1, <3>2
  <2>3. HistoryTyped' BY <2>1, HistoryStays
  <2>4. CASE errors' # {}
    <3>1. UNCHANGED <<op, sending, request, result, store>> BY <2>1, <2>4
    <3> QED BY <2>1, <2>2, <3>1, HistoryStays, CallStays
  <2>5. CASE errors' = {}
    <3>1. request' = T!Sent /\ sending' = TRUE /\ result' = None /\ UNCHANGED <<op,
                                                                                store>> /\ ~sending
      BY <2>1, <2>5
    <3>2. request' \in T!Request /\ request'.op = op /\ request' # None
          /\ T!validateParameters(request'.values) = {}
      BY <2>5, <3>1, FormsTyped, TcConstants
    <3>3. T!Promise!Ask BY <3>1, <3>2, Zenon DEF T!Promise!Ask
    <3>4. Calling' BY <3>1, <3>2, Zenon DEF Calling
    <3>5. HistoryTold' BY <2>1, HistoryStays
    <3> QED BY <2>2, <2>3, <3>3, <3>4, <3>5, Zenon DEF ExchangeStep, T!Promise!Next
  <2> QED BY <2>4, <2>5
<1>2. CASE T!Invoke \/ T!Cancel \/ T!WaitOver
  <2>1. UNCHANGED <<op, mounted, visited, form, errors, request, sending, result, failure,
                    store, history, saveDetails>>
    BY <1>2, Zenon DEF T!Invoke, T!Cancel, T!WaitOver, T!formVars
  <2>2. steps' \in 0..MaxSteps
    BY <1>2, TcConstants DEF T!Invoke, T!Cancel, T!WaitOver, T!Step, ConsoleTyped
  <2>3. answer' \in T!Failures \cup {"none", "ok"} /\ aborted' \in BOOLEAN /\ wait' \in BOOLEAN
    BY <1>2, Zenon DEF T!Invoke, T!Cancel, T!WaitOver, ConsoleTyped
  <2>4. ConsoleTyped' BY <2>1, <2>2, <2>3, Zenon DEF ConsoleTyped
  <2> QED BY <2>1, <2>4, HistoryStays, CallStays, Zenon
<1>3. CASE T!Answered
  <2> USE <1>3 DEF T!Answered
  <2>1. request \in T!Request /\ request # None /\ sending /\ request.op \in Operation
    BY DEF ConsoleTyped, Calling, T!Request
  <2>2. sending' = FALSE /\ request' = None /\ answer' = "none"
        /\ UNCHANGED <<op, mounted, visited, form, errors, aborted, saveDetails, steps>>
    BY DEF T!formVars
  <2>3. CASE answer = "ok"
    <3>1. result' = request /\ UNCHANGED <<failure, wait>>
          /\ store' = [store EXCEPT ![request.op] = T!addHistory(request)]
          /\ history' = store'[request.op]
      BY <2>3
    <3> DEFINE h == T!addHistory(request)
    <3>2. h \in Seq(Kept) /\ Len(h) <= HistoryLimit
          /\ \A i \in 1..Len(h) : h[i].op = request.op /\ Checked(h[i])
      BY <2>1, AddHistory
    <3> HIDE DEF h
    <3>3. store \in [Operation -> Seq(Kept)] BY DEF HistoryTyped
    <3>4. \A o \in Operation : store'[o] = IF o = request.op THEN h ELSE store[o]
      BY <3>1, <3>3 DEF h
    <3>5. store' \in [Operation -> Seq(Kept)] BY <3>1, <3>2, <3>3 DEF h
    <3>6. HistoryTyped' BY <2>1, <3>1, <3>2, <3>4, <3>5 DEF HistoryTyped
    <3>7. ASSUME NEW o \in Operation, NEW i \in 1..Len(store'[o])
          PROVE  store'[o][i].op = o /\ Checked(store'[o][i])
      <4>1. CASE o = request.op BY <3>2, <3>4, <3>7, <4>1
      <4>2. CASE o # request.op BY <3>4, <3>7, <4>2 DEF HistoryTold
      <4> QED BY <4>1, <4>2
    <3>8. ConsoleTyped' BY <2>1, <2>2, <3>1, Zenon DEF ConsoleTyped, T!Failures
    <3>9. T!Promise!Show BY <2>1, <2>2, <3>1, Zenon DEF T!Promise!Show
    <3>10. HistoryTold' BY <3>7, Zenon DEF HistoryTold, Checked
    <3>11. Calling' BY <2>2, Zenon DEF Calling
    <3> QED BY <3>6, <3>8, <3>9, <3>10, <3>11, Zenon DEF ExchangeStep, T!Promise!Next
  <2>4. CASE answer # "ok"
    <3>1. failure' = answer /\ wait' \in BOOLEAN /\ UNCHANGED <<result, store, history>>
      BY <2>4, Zenon
    <3>2. answer \in T!Failures BY <2>4 DEF ConsoleTyped
    <3>3. ConsoleTyped' BY <2>2, <3>1, <3>2, Zenon DEF ConsoleTyped, T!Failures
    <3>4. T!Promise!GiveUp BY <2>1, <2>2, <3>1, Zenon DEF T!Promise!GiveUp
    <3>5. Calling' BY <2>2, Zenon DEF Calling
    <3>6. HistoryTyped' /\ HistoryTold' BY <3>1, HistoryStays, Zenon
    <3> QED BY <3>3, <3>4, <3>5, <3>6, Zenon DEF ExchangeStep, T!Promise!Next
  <2> QED BY <2>3, <2>4
<1>4. CASE T!Cancelled
  <2>1. sending' = FALSE /\ request' = None /\ answer' = "none" /\ aborted' = FALSE /\ request # None
        /\ UNCHANGED <<op, mounted, visited, form, errors, result, failure, wait, store, history,
                       saveDetails, steps>>
    BY <1>4, Zenon DEF T!Cancelled, T!formVars
  <2>2. ConsoleTyped' BY <2>1, Zenon DEF ConsoleTyped, T!Failures
  <2>3. T!Promise!GiveUp BY <2>1, Zenon DEF T!Promise!GiveUp, Calling
  <2>4. Calling' BY <2>1, Zenon DEF Calling
  <2>5. HistoryTyped' /\ HistoryTold' BY <2>1, HistoryStays, Zenon
  <2> QED BY <2>2, <2>3, <2>4, <2>5, Zenon DEF ExchangeStep, T!Promise!Next
<1> QED BY <1>1, <1>2, <1>3, <1>4

\* Every step of the console keeps its invariant and, if no two operations have one key, the
\* promise.
LEMMA ConsolePreserved ==
    ASSUME ConsoleInv, [T!Next]_consoleVars
    PROVE  ConsoleInv' /\ (KeysApart => ExchangeStep)
<1> USE DEF ConsoleInv
<1>1. ASSUME NEW o \in Operation, NEW direct \in BOOLEAN, T!Open(o, direct)
      PROVE  ConsoleInv' /\ (KeysApart => ExchangeStep)
  <2> USE <1>1 DEF T!Open
  <2>1. /\ op' = o /\ visited' \subseteq Operation /\ steps' \in 0..MaxSteps
        /\ UNCHANGED <<store, saveDetails>>
    BY TcConstants DEF T!Step, ConsoleTyped
  <2>2. CASE direct /\ mounted /\ KeyOf[o] = KeyOf[op]
    <3>1. UNCHANGED <<mounted, form, errors, request, answer, aborted, sending, result, failure,
                      wait, history>>
      BY <2>2, Zenon DEF T!formVars, T!callVars
    <3>2. ConsoleTyped' BY <2>1, <3>1, Zenon DEF ConsoleTyped
    <3>3. ~KeysApart BY <2>2 DEF KeysApart, ConsoleTyped
    <3>4. HistoryTyped' /\ HistoryTold'
      BY <2>1, <3>1, HistoryStays, Zenon
    <3>5. Calling' BY <3>1, Zenon DEF Calling
    <3> QED BY <3>2, <3>3, <3>4, <3>5
  <2>3. CASE ~(direct /\ mounted /\ KeyOf[o] = KeyOf[op])
    <3>1. T!Mount(o) /\ mounted' = TRUE BY <2>3
    <3>2. ConsoleInv' BY <2>1, <3>1, MountStep
    <3>3. sending' = FALSE /\ result' = None BY <3>1 DEF T!Mount
    <3>4. T!Promise!Move BY <2>1, <3>3 DEF T!Promise!Move
    <3> QED BY <3>2, <3>4 DEF ExchangeStep, T!Promise!Next
  <2> QED BY <2>2, <2>3
<1>2. CASE T!Hide \/ T!Unhide
  <2>1. T!Mount(op) /\ mounted' \in BOOLEAN /\ UNCHANGED <<op, visited, store,
                                                           saveDetails>> /\ T!Step
    BY <1>2, Zenon DEF T!Hide, T!Unhide
  <2>2. op' \in Operation /\ op \in Operation /\ visited' \subseteq Operation /\ steps' \in 0..MaxSteps
    BY <2>1, TcConstants DEF T!Step, ConsoleTyped
  <2>3. ConsoleInv' BY <2>1, <2>2, MountStep
  <2>4. sending' = FALSE /\ result' = None BY <2>1 DEF T!Mount
  <2>5. T!Promise!Move BY <2>2, <2>4 DEF T!Promise!Move
  <2> QED BY <2>3, <2>5 DEF ExchangeStep, T!Promise!Next
<1>3. CASE T!Fill BY <1>3, FillStep, CallStays, Zenon
<1>4. CASE T!Send \/ T!Invoke \/ T!Cancel \/ T!Answered \/ T!Cancelled \/ T!WaitOver
  BY <1>4, CallStep
<1>5. CASE T!ToggleDetails
  <2>1. UNCHANGED <<op, mounted, visited, form, errors, request, answer, aborted, sending, result,
                    failure, wait, store, history>> /\ saveDetails' \in BOOLEAN
    BY <1>5, Zenon DEF T!ToggleDetails, T!formVars, T!callVars
  <2>2. steps' \in 0..MaxSteps BY <1>5, TcConstants DEF T!ToggleDetails, T!Step, ConsoleTyped
  <2>3. ConsoleTyped' BY <2>1, <2>2, Zenon DEF ConsoleTyped
  <2> QED BY <2>1, <2>3, HistoryStays, CallStays, Zenon
<1>6. CASE T!ClearHistory
  <2>1. /\ UNCHANGED <<op, mounted, visited, form, errors, request, answer, aborted, sending,
                       result,
                       failure, wait, saveDetails>>
        /\ store' = [store EXCEPT ![op] = <<>>] /\ history' = <<>>
    BY <1>6, Zenon DEF T!ClearHistory, T!formVars, T!callVars
  <2>2. steps' \in 0..MaxSteps BY <1>6, TcConstants DEF T!ClearHistory, T!Step, ConsoleTyped
  <2>3. ConsoleTyped' BY <2>1, <2>2, Zenon DEF ConsoleTyped
  <2>4. <<>> \in Seq(Kept) /\ Len(<<>>) = 0 BY EmptySeq
  <2>5. store' \in [Operation -> Seq(Kept)]
        /\ \A o \in Operation : store'[o] = store[o] \/ store'[o] = <<>>
    BY <2>1, <2>4 DEF HistoryTyped
  <2>6. \A o \in Operation : Len(store'[o]) <= HistoryLimit
    BY <2>4, <2>5, TcConstants DEF HistoryTyped
  <2>7. HistoryTyped' BY <2>1, <2>4, <2>5, <2>6, Zenon DEF HistoryTyped
  <2>8. ASSUME NEW o \in Operation, NEW i \in 1..Len(store'[o])
        PROVE  store'[o][i].op = o /\ Checked(store'[o][i])
    <3>1. CASE store'[o] = <<>> BY <2>4, <2>8, <3>1
    <3>2. CASE store'[o] = store[o] BY <2>8, <3>2 DEF HistoryTold
    <3> QED BY <2>5, <3>1, <3>2
  <2>9. HistoryTold' BY <2>8, Zenon DEF HistoryTold, Checked
  <2> QED BY <2>1, <2>3, <2>7, <2>9, CallStays, Zenon
<1>7. CASE UNCHANGED consoleVars
  <2>1. ConsoleTyped' BY <1>7, Zenon DEF consoleVars, ConsoleTyped
  <2>2. store' = store /\ history' = history /\ UNCHANGED <<op, sending, request, result>>
    BY <1>7, Zenon DEF consoleVars
  <2>3. HistoryTyped' /\ HistoryTold' BY <2>2, HistoryStays, Zenon
  <2> QED BY <2>1, <2>2, <2>3, CallStays, Zenon
<1> QED BY <1>1, <1>2, <1>3, <1>4, <1>5, <1>6, <1>7, Zenon DEF T!Next

-----------------------------------------------------------------------------
(* The catalogue *)

\* BackSkipsLetters is not inductive: typing replaces an entry that may have one after it, so
\* two neighbouring entries that are both searches must differ in more than the text, equal
\* texts included.
Visited == [page: {"catalog", "other"}, params: C!Params]
Rest(e) == [e.params EXCEPT !.q = ""]
HasText(e) == e.params.q # ""
Letter(e, f) == /\ e.page = "catalog" /\ f.page = "catalog" /\ Rest(e) = Rest(f)
                /\ HasText(e) /\ HasText(f)

HistTyped ==
    /\ hist \in Seq(Visited) /\ at \in 1..Len(hist) /\ Len(hist) <= MaxHistory
NoLetters == relaid \/ \A i \in 1..(Len(hist) - 1) : ~Letter(hist[i], hist[i + 1])
SearchTyped ==
    /\ debounced \in C!Text /\ expandedFor \in C!Text
    /\ cache \in [C!Text -> C!Text \cup {None, "error"}]
    /\ previous \in C!Text \cup {None} /\ running \subseteq C!Text
BoxTyped == prefs \in C!Layout /\ draft \in C!Text /\ listed \subseteq Apis /\ relaid \in BOOLEAN
CatalogInv == HistTyped /\ NoLetters /\ SearchTyped /\ BoxTyped

\* What the catalogue needs of its constants.
LEMMA CpConstants ==
    /\ Apis \subseteq C!ApiRecord /\ None \notin Owner
    /\ MaxHistory \in Nat /\ MaxHistory # 0
BY CatalogAssumption, Zenon DEF C!CatalogAssumption

LEMMA PlainParams ==
    /\ C!Plain \in C!Params
    /\ \A e : e.params = C!Plain => ~HasText(e)
<1>1. C!Plain \in C!Params /\ C!Plain.q = "" BY DEF C!Plain, C!Params, C!Text
<1> QED BY <1>1, Zenon DEF HasText

\* A patch of the filters or of the layout changes the fields it names.
Patches ==
    {[view |-> v] : v \in C!Views} \cup {[sort |-> v] : v \in C!Sorts}
    \cup {[status |-> v] : v \in SUBSET C!Statuses} \cup {[owners |-> v] : v \in SUBSET Owner}
    \cup {[tags |-> v] : v \in SUBSET Tag}
    \cup {[q |-> ""], [q |-> "", tags |-> {}, owners |-> {}, status |-> {}]}
LEMMA PatchedFilters ==
    ASSUME NEW f \in C!Filters, NEW patch \in Patches
    PROVE  C!Patched(f, patch) \in C!Filters /\ C!Patched(f, patch).q \in {f.q, ""}
<1> USE DEF C!Patched, C!Filters
<1>1. "" \in C!Text BY DEF C!Text
<1>2. ASSUME NEW v \in C!Views, patch = [view |-> v]
      PROVE  C!Patched(f, patch) \in C!Filters /\ C!Patched(f, patch).q = f.q
  BY <1>2
<1>3. ASSUME NEW v \in C!Sorts, patch = [sort |-> v]
      PROVE  C!Patched(f, patch) \in C!Filters /\ C!Patched(f, patch).q = f.q
  BY <1>3
<1>4. ASSUME NEW v \in SUBSET C!Statuses, patch = [status |-> v]
      PROVE  C!Patched(f, patch) \in C!Filters /\ C!Patched(f, patch).q = f.q
  BY <1>4
<1>5. ASSUME NEW v \in SUBSET Owner, patch = [owners |-> v]
      PROVE  C!Patched(f, patch) \in C!Filters /\ C!Patched(f, patch).q = f.q
  BY <1>5
<1>6. ASSUME NEW v \in SUBSET Tag, patch = [tags |-> v]
      PROVE  C!Patched(f, patch) \in C!Filters /\ C!Patched(f, patch).q = f.q
  BY <1>6
<1>7. CASE patch = [q |-> ""] BY <1>1, <1>7
<1>8. CASE patch = [q |-> "", tags |-> {}, owners |-> {}, status |-> {}] BY <1>1, <1>8
<1> HIDE DEF C!Patched, C!Filters
<1> QED BY <1>2, <1>3, <1>4, <1>5, <1>6, <1>7, <1>8 DEF Patches

LEMMA PatchedLayout ==
    ASSUME NEW l \in C!Layout, NEW patch \in Patches
    PROVE  C!Patched(l, patch) \in C!Layout
<1> USE DEF C!Patched, C!Layout
<1>1. ASSUME NEW v \in C!Views, patch = [view |-> v] PROVE C!Patched(l, patch) \in C!Layout
  BY <1>1
<1>2. ASSUME NEW v \in C!Sorts, patch = [sort |-> v] PROVE C!Patched(l, patch) \in C!Layout
  BY <1>2
<1>3. ASSUME "view" \notin DOMAIN patch, "sort" \notin DOMAIN patch
      PROVE  C!Patched(l, patch) \in C!Layout
  BY <1>3
<1> HIDE DEF C!Patched, C!Layout
<1>4. CASE \/ \E v : patch = [status |-> v]
           \/ \E v : patch = [owners |-> v]
           \/ \E v : patch = [tags |-> v]
           \/ patch = [q |-> ""]
           \/ patch = [q |-> "", tags |-> {}, owners |-> {}, status |-> {}]
  <2>1. "view" \notin DOMAIN patch /\ "sort" \notin DOMAIN patch BY <1>4
  <2> QED BY <1>3, <2>1
<1> QED BY <1>1, <1>2, <1>4, Zenon DEF Patches

\* Filters and the parameters of a URL are the same thing written twice; the text is kept.
LEMMA FiltersParams ==
    /\ \A p \in C!Params : C!parseFilters(p) \in C!Filters /\ C!parseFilters(p).q = p.q
    /\ \A f \in C!Filters : C!filtersToParams(f) \in C!Params /\ C!filtersToParams(f).q = f.q
<1>1. ASSUME NEW p \in C!Params
      PROVE  C!parseFilters(p) \in C!Filters /\ C!parseFilters(p).q = p.q
  BY DEF C!parseFilters, C!Params, C!Filters, C!Sorts, C!Views
<1>2. ASSUME NEW f \in C!Filters
      PROVE  C!filtersToParams(f) \in C!Params /\ C!filtersToParams(f).q = f.q
  BY DEF C!filtersToParams, C!Params, C!Filters, C!Sorts, C!Views
<1> QED BY <1>1, <1>2

\* The remembered layout joins a URL, and nothing else.
LEMMA EnteredParams ==
    ASSUME NEW p \in C!Params, prefs \in C!Layout
    PROVE  C!Entered(p) \in C!Params
<1> DEFINE f == C!parseFilters(p)
           next == [f EXCEPT !.view = IF p.view = "" THEN prefs.view ELSE @,
                             !.sort = IF p.sort = "" THEN prefs.sort ELSE @]
<1>1. f \in C!Filters BY FiltersParams
<1>2. prefs.view \in C!Views /\ prefs.sort \in C!Sorts BY DEF C!Layout
<1> HIDE DEF f
<1>3. next \in C!Filters BY <1>1, <1>2 DEF C!Filters
<1> HIDE DEF next
<1>4. C!filtersToParams(next) \in C!Params BY <1>3, FiltersParams
<1> QED BY <1>4, Zenon DEF C!Entered, next, f

\* Two entries with the same parameters but the text have the same parameters if the text is.
LEMMA RestTells ==
    ASSUME NEW e \in Visited, NEW f \in Visited, Rest(e) = Rest(f), e.params.q = f.params.q
    PROVE  e.params = f.params
<1> DEFINE p == e.params
           n == f.params
           Other == {"tags", "owners", "status", "sort", "view"}
<1>1. p \in C!Params /\ n \in C!Params BY DEF Visited
<1> HIDE DEF p, n
<1>2. \A k \in Other : [p EXCEPT !.q = ""][k] = p[k] /\ [n EXCEPT !.q = ""][k] = n[k]
  BY <1>1 DEF C!Params
<1>3. [p EXCEPT !.q = ""] = [n EXCEPT !.q = ""] BY Zenon DEF Rest, p, n
<1>4. \A k \in Other : p[k] = n[k] BY <1>2, <1>3, Zenon
<1>5. p.q = n.q BY DEF p, n
<1>6. p = [q |-> p.q, tags |-> p.tags, owners |-> p.owners, status |-> p.status, sort |-> p.sort,
           view |-> p.view]
      /\ n = [q |-> n.q, tags |-> n.tags, owners |-> n.owners, status |-> n.status, sort |-> n.sort,
              view |-> n.view]
  BY <1>1 DEF C!Params
<1>7. p.tags = n.tags /\ p.owners = n.owners /\ p.status = n.status /\ p.sort = n.sort
      /\ p.view = n.view
  BY <1>4
<1>8. p = n BY <1>5, <1>6, <1>7, Zenon
<1> QED BY <1>8 DEF p, n

\* The catalogue starts in its invariant.
LEMMA CatalogInitial == PagesInit => CatalogInv
<1> SUFFICES ASSUME C!Init PROVE CatalogInv BY DEF PagesInit
<1> DEFINE e == [page |-> "other", params |-> C!Plain]
<1>1. e \in Visited BY PlainParams DEF Visited
<1> HIDE DEF e
<1>2. hist = <<e>> /\ at = 1 BY Zenon DEF C!Init, e
<1>3. hist \in Seq(Visited) /\ Len(hist) = 1 BY <1>1, <1>2
<1>4. HistTyped BY <1>2, <1>3, CpConstants DEF HistTyped
<1>5. NoLetters BY <1>3 DEF NoLetters
<1>6. SearchTyped BY DEF C!Init, SearchTyped, C!Text
<1>7. BoxTyped
  <2>1. prefs \in {[sort |-> "name", view |-> "grid"], [sort |-> "viewed", view |-> "list"]}
    BY Zenon DEF C!Init
  <2>2. prefs \in C!Layout BY <2>1 DEF C!Layout, C!Sorts, C!Views
  <2> QED BY <2>2, Zenon DEF C!Init, BoxTyped, C!Text
<1> QED BY <1>4, <1>5, <1>6, <1>7 DEF CatalogInv

\* A new entry takes the place of those after the one on show.
LEMMA PushStep ==
    ASSUME CatalogInv, NEW e \in Visited, C!Push(e), relaid => relaid',
           relaid' \/ ~Letter(hist[at], e)
    PROVE  HistTyped' /\ NoLetters'
<1> USE DEF CatalogInv, HistTyped
<1> DEFINE kept == SubSeq(hist, 1, at)
<1>1. at \in Nat /\ 1 <= at /\ at <= Len(hist) /\ Len(hist) \in Nat OBVIOUS
<1>2. \A i \in 1..at : hist[i] \in Visited BY <1>1, ElementOfSeq
<1>3. kept \in Seq(Visited) /\ Len(kept) = at /\ \A i \in 1..at : kept[i] = hist[i]
  BY <1>1, <1>2, SubSeqProperties
<1>4. hist' = Append(kept, e) /\ at' = at + 1 /\ at < MaxHistory BY DEF C!Push
<1> HIDE DEF kept
<1>5. /\ hist' \in Seq(Visited) /\ Len(hist') = at + 1 /\ hist'[at + 1] = e
      /\ \A i \in 1..at : hist'[i] = hist[i]
  BY <1>1, <1>3, <1>4
<1>6. HistTyped' BY <1>1, <1>4, <1>5, CpConstants
<1>7. ASSUME ~relaid', NEW i \in 1..at PROVE ~Letter(hist'[i], hist'[i + 1])
  <2>1. CASE i = at BY <1>1, <1>5, <1>7, <2>1
  <2>2. CASE i # at
    <3>1. i + 1 \in 1..at /\ i \in 1..(Len(hist) - 1) BY <1>1, <2>2
    <3>2. ~Letter(hist[i], hist[i + 1]) BY <1>7, <3>1 DEF NoLetters
    <3> QED BY <1>5, <3>1, <3>2
  <2> QED BY <2>1, <2>2
<1>8. Len(hist') - 1 = at BY <1>1, <1>5
<1>9. NoLetters' BY <1>7, <1>8, Zenon DEF NoLetters, Letter, Rest
<1> QED BY <1>6, <1>9

\* Typing on replaces a search by a search: its neighbours are none, or differ in more.
LEMMA ReplaceStep ==
    ASSUME CatalogInv, NEW t \in C!Text, hist[at].page = "catalog", HasText(hist[at]),
           C!Replace(C!Catalog([hist[at].params EXCEPT !.q = t])), relaid' <=> relaid
    PROVE  HistTyped' /\ NoLetters'
<1> USE DEF CatalogInv, HistTyped
<1> DEFINE old == hist[at]
           e == C!Catalog([old.params EXCEPT !.q = t])
<1>1. at \in Nat /\ 1 <= at /\ at <= Len(hist) /\ Len(hist) \in Nat /\ old \in Visited
  BY ElementOfSeq
<1> HIDE DEF old
<1>2. e \in Visited /\ Rest(e) = Rest(old)
  BY <1>1 DEF Visited, C!Catalog, C!Params, Rest
<1>3. hist' = [hist EXCEPT ![at] = e] /\ at' = at BY DEF C!Replace, e, old
<1> HIDE DEF e
<1>4. hist' \in Seq(Visited) /\ Len(hist') = Len(hist)
      /\ \A i \in 1..Len(hist) : hist'[i] = IF i = at THEN e ELSE hist[i]
  BY <1>1, <1>2, <1>3, ExceptSeq
<1>5. HistTyped' BY <1>1, <1>3, <1>4
<1>6. ASSUME ~relaid, NEW i \in 1..(Len(hist) - 1) PROVE ~Letter(hist'[i], hist'[i + 1])
  <2>1. i \in 1..Len(hist) /\ i + 1 \in 1..Len(hist) BY <1>1
  <2>2. ~Letter(hist[i], hist[i + 1]) BY <1>6 DEF NoLetters
  <2>3. CASE i = at
    <3>1. hist'[i] = e /\ hist'[i + 1] = hist[i + 1] BY <1>1, <1>4, <2>1, <2>3
    <3>2. ~Letter(old, hist[i + 1]) BY <2>2, <2>3 DEF old
    <3> QED BY <1>2, <3>1, <3>2, Zenon DEF Letter, old
  <2>4. CASE i + 1 = at
    <3>1. hist'[i + 1] = e /\ hist'[i] = hist[i] BY <1>1, <1>4, <2>1, <2>4
    <3>2. ~Letter(hist[i], old) BY <2>2, <2>4 DEF old
    <3> QED BY <1>2, <3>1, <3>2, Zenon DEF Letter, old
  <2>5. CASE i # at /\ i + 1 # at BY <1>4, <2>1, <2>2, <2>5
  <2> QED BY <2>3, <2>4, <2>5
<1>7. NoLetters' BY <1>4, <1>6, Zenon DEF NoLetters, Letter, Rest
<1> QED BY <1>5, <1>7

\* A change of the filters or the layout is an entry of its own, the same one again (relaid),
\* or one without a text.
LEMMA UpdateStep ==
    ASSUME CatalogInv, NEW patch \in Patches, C!Update(patch)
    PROVE  CatalogInv'
<1> USE DEF CatalogInv
<1> DEFINE old == hist[at]
           n == C!filtersToParams(C!Patched(C!filters, patch))
<1>1. at \in 1..Len(hist) /\ old \in Visited /\ old.page = "catalog"
  BY ElementOfSeq DEF HistTyped, C!Update, C!OnCatalog
<1> HIDE DEF old
<1>2. C!filters \in C!Filters /\ C!filters.q = old.params.q
  BY <1>1, FiltersParams DEF C!filters, old, Visited
<1>3. n \in C!Params /\ n.q \in {old.params.q, ""}
  BY <1>2, PatchedFilters, FiltersParams
<1>4. C!Push(C!Catalog(n)) /\ relaid' = (relaid \/ hist'[at'] = hist[at])
      /\ prefs' = C!Patched(prefs, patch)
      /\ UNCHANGED <<draft, listed, debounced, cache, previous, running, expandedFor>>
  BY Zenon DEF C!Update, C!searchVars, C!rememberLayout
<1> HIDE DEF n
<1>5. C!Catalog(n) \in Visited /\ C!Catalog(n).params = n BY <1>3 DEF C!Catalog, Visited
<1>6. hist' = Append(SubSeq(hist, 1, at), C!Catalog(n)) /\ at' = at + 1
  BY <1>4 DEF C!Push
<1>7. hist'[at'] = C!Catalog(n)
  <2>1. at \in Nat /\ 1 <= at /\ at <= Len(hist) BY <1>1 DEF HistTyped
  <2>2. \A i \in 1..at : hist[i] \in Visited BY <2>1, ElementOfSeq DEF HistTyped
  <2>3. SubSeq(hist, 1, at) \in Seq(Visited) /\ Len(SubSeq(hist, 1, at)) = at
    BY <2>1, <2>2, SubSeqProperties
  <2> QED BY <1>5, <1>6, <2>1, <2>3
<1>8. relaid' \/ ~Letter(old, C!Catalog(n))
  <2> SUFFICES ASSUME Letter(old, C!Catalog(n)) PROVE relaid' OBVIOUS
  <2>1. old.params = n BY <1>1, <1>3, <1>5, RestTells DEF Letter, HasText
  <2>2. old = C!Catalog(n) BY <1>1, <2>1 DEF C!Catalog, Visited
  <2> QED BY <1>4, <1>7, <2>2 DEF old
<1>9. HistTyped' /\ NoLetters'
  <2>1. relaid => relaid' BY <1>4, Zenon
  <2> QED BY <1>4, <1>5, <1>8, <2>1, PushStep, Zenon DEF old
<1>10. SearchTyped' BY <1>4 DEF SearchTyped
<1>11. BoxTyped'
  <2>1. prefs' \in C!Layout BY <1>4, PatchedLayout DEF BoxTyped
  <2>2. relaid' \in BOOLEAN BY <1>4, Zenon
  <2> QED BY <1>4, <2>1, <2>2, Zenon DEF BoxTyped
<1> QED BY <1>9, <1>10, <1>11

\* A page that is mounted searches for the text of its URL.
LEMMA MountedSearch ==
    ASSUME CatalogInv, NEW p \in C!Params, C!Mounted(p)
    PROVE  SearchTyped'
<1>1. p.q \in C!Text /\ "" \in C!Text BY DEF C!Params, C!Text
<1>2. debounced' = p.q /\ expandedFor' = "" /\ previous' = None /\ cache' = cache
      /\ (running' = {p.q} \/ running' = {})
  BY Zenon DEF C!Mounted
<1> QED BY <1>1, <1>2 DEF CatalogInv, SearchTyped

LEMMA UnmountedSearch == CatalogInv /\ C!Unmounted => SearchTyped'
BY DEF CatalogInv, SearchTyped, C!Unmounted

\* The steps from page to page.
LEMMA NavigationStep ==
    ASSUME CatalogInv, C!OpenCatalog(C!Plain) \/ C!Leave \/ C!Submit
    PROVE  CatalogInv'
<1> USE DEF CatalogInv
<1> DEFINE off == [page |-> "other", params |-> C!Plain]
<1>1. off \in Visited /\ off.page = "other" BY PlainParams DEF Visited
<1>2. \A p \in C!Params : C!Catalog(p) \in Visited /\ C!Catalog(p).params = p
  BY DEF C!Catalog, Visited
<1>3. ASSUME NEW p \in C!Params, C!Push(C!Catalog(C!Entered(p))), C!Mounted(p), ~C!OnCatalog,
             UNCHANGED <<prefs, listed, relaid>>, draft' \in C!Text
      PROVE  CatalogInv'
  <2>1. C!Catalog(C!Entered(p)) \in Visited BY <1>2, EnteredParams DEF BoxTyped
  <2>2. ~Letter(hist[at], C!Catalog(C!Entered(p))) BY <1>3, Zenon DEF Letter, C!OnCatalog
  <2>3. HistTyped' /\ NoLetters' BY <1>3, <2>1, <2>2, PushStep
  <2>4. SearchTyped' BY <1>3, MountedSearch
  <2>5. BoxTyped' BY <1>3, Zenon DEF BoxTyped
  <2> QED BY <2>3, <2>4, <2>5
<1>4. CASE C!OpenCatalog(C!Plain) /\ C!OnCatalog
  <2>1. C!Push(C!Catalog(C!Plain)) /\ UNCHANGED C!searchVars
        /\ UNCHANGED <<prefs, draft, listed, relaid>>
    BY <1>4, Zenon DEF C!OpenCatalog
  <2>2. ~Letter(hist[at], C!Catalog(C!Plain)) BY <1>2, PlainParams, Zenon DEF Letter
  <2>3. HistTyped' /\ NoLetters' BY <1>2, <2>1, <2>2, PlainParams, PushStep
  <2>4. SearchTyped' /\ BoxTyped' BY <2>1 DEF SearchTyped, BoxTyped, C!searchVars
  <2> QED BY <2>3, <2>4
<1>5. CASE C!OpenCatalog(C!Plain) /\ ~C!OnCatalog
  <2>1. C!Push(C!Catalog(C!Entered(C!Plain))) /\ C!Mounted(C!Plain)
        /\ UNCHANGED <<prefs, draft, listed, relaid>>
    BY <1>5, Zenon DEF C!OpenCatalog
  <2> QED BY <1>3, <1>5, <2>1, PlainParams, Zenon DEF BoxTyped
<1>6. CASE C!Leave
  <2>1. C!Push(off) /\ C!Unmounted /\ UNCHANGED <<prefs, draft, listed, relaid>>
    BY <1>6, Zenon DEF C!Leave
  <2>2. ~Letter(hist[at], off) BY <1>1 DEF Letter
  <2>3. HistTyped' /\ NoLetters' BY <1>1, <2>1, <2>2, PushStep, Zenon
  <2>4. SearchTyped' BY <2>1, UnmountedSearch
  <2>5. BoxTyped' BY <2>1, Zenon DEF BoxTyped
  <2> QED BY <2>3, <2>4, <2>5
<1>7. CASE C!Submit
  <2> DEFINE p == [C!Plain EXCEPT !.q = draft]
  <2>1. p \in C!Params BY PlainParams DEF C!Params, BoxTyped
  <2> HIDE DEF p
  <2>2. C!Push(C!Catalog(C!Entered(p))) /\ C!Mounted(p) /\ ~C!OnCatalog /\ draft' = ""
        /\ UNCHANGED <<prefs, listed, relaid>>
    BY <1>7, Zenon DEF C!Submit, p
  <2>3. "" \in C!Text BY DEF C!Text
  <2> QED BY <1>3, <2>1, <2>2, <2>3, Zenon
<1> QED BY <1>4, <1>5, <1>6, <1>7

\* Back and Forward: an entry that gets the remembered layout on arrival is a changed one.
LEMMA GoStep ==
    ASSUME CatalogInv, NEW step \in {1, -1}, C!Go(step)
    PROVE  CatalogInv'
<1> USE DEF CatalogInv
<1> DEFINE to == at + step
           old == hist[to]
           e == [old EXCEPT !.params = C!Entered(@)]
<1>1. /\ to \in 1..Len(hist) /\ at' = to /\ UNCHANGED <<prefs, draft, listed>>
      /\ IF hist[to].page = "catalog" /\ ~C!OnCatalog
         THEN /\ hist' = [hist EXCEPT ![to].params = C!Entered(@)]
              /\ relaid' = (relaid \/ hist' # hist)
              /\ C!Mounted(hist[to].params)
         ELSE /\ UNCHANGED <<hist, relaid>>
              /\ IF hist[to].page = "catalog" THEN UNCHANGED C!searchVars ELSE C!Unmounted
  BY Zenon DEF C!Go
<1>2. old \in Visited BY <1>1, ElementOfSeq DEF HistTyped
<1> HIDE DEF to, old
<1>3. C!Entered(old.params) \in C!Params BY <1>2, EnteredParams DEF BoxTyped, Visited
<1>4. e \in Visited BY <1>2, <1>3 DEF Visited
<1>5. CASE hist[to].page = "catalog" /\ ~C!OnCatalog
  <2>1. hist' = [hist EXCEPT ![to] = e] BY <1>1, <1>5 DEF old, HistTyped
  <2>2. relaid' = (relaid \/ hist' # hist) /\ C!Mounted(old.params) BY <1>1, <1>5, Zenon DEF old
  <2> HIDE DEF e
  <2>3. hist' \in Seq(Visited) /\ Len(hist') = Len(hist)
    BY <1>1, <1>4, <2>1, ExceptSeq DEF HistTyped
  <2>4. HistTyped' BY <1>1, <2>3 DEF HistTyped
  <2>5. ASSUME hist' = hist PROVE NoLetters'
    <3>1. relaid' <=> relaid BY <2>2, <2>5, Zenon
    <3>2. Len(hist') = Len(hist) /\ \A i : hist'[i] = hist[i] BY <2>5
    <3> QED BY <3>1, <3>2, Zenon DEF NoLetters, Letter, Rest
  <2>6. ASSUME hist' # hist PROVE NoLetters'
    <3>1. relaid' BY <2>2, <2>6, Zenon
    <3> QED BY <3>1, Zenon DEF NoLetters
  <2>7. SearchTyped' BY <1>2, <2>2, MountedSearch DEF Visited
  <2>8. relaid' \in BOOLEAN BY <2>2, Zenon
  <2>9. BoxTyped' BY <1>1, <2>8, Zenon DEF BoxTyped
  <2> QED BY <2>4, <2>5, <2>6, <2>7, <2>9
<1>6. CASE ~(hist[to].page = "catalog" /\ ~C!OnCatalog)
  <2>1. UNCHANGED <<hist, relaid>> /\ (UNCHANGED C!searchVars \/ C!Unmounted)
    BY <1>1, <1>6, Zenon
  <2>2. HistTyped' BY <1>1, <2>1 DEF HistTyped
  <2>3. NoLetters' BY <2>1 DEF NoLetters, Letter, Rest
  <2>4. SearchTyped'
    <3>1. CASE UNCHANGED C!searchVars BY <3>1 DEF C!searchVars, SearchTyped
    <3>2. CASE C!Unmounted BY <3>2, UnmountedSearch
    <3> QED BY <2>1, <3>1, <3>2
  <2>5. BoxTyped' BY <1>1, <2>1, Zenon DEF BoxTyped
  <2> QED BY <2>2, <2>3, <2>4, <2>5
<1> QED BY <1>5, <1>6

\* Typing: the first letter of a text is an entry, the next ones replace it.
LEMMA TypeStep ==
    ASSUME CatalogInv, NEW t \in C!Text, C!Type(t)
    PROVE  CatalogInv'
<1> USE DEF CatalogInv
<1> DEFINE old == hist[at]
           e == C!Catalog([old.params EXCEPT !.q = t])
<1>1. draft' = t /\ UNCHANGED <<prefs, listed, relaid>> /\ UNCHANGED C!searchVars
      /\ IF ~C!OnCatalog THEN UNCHANGED <<hist, at>>
         ELSE IF old.params.q = "" THEN C!Push(e) ELSE C!Replace(e)
  BY Zenon DEF C!Type
<1>2. SearchTyped' BY <1>1 DEF SearchTyped, C!searchVars
<1>3. BoxTyped' BY <1>1, Zenon DEF BoxTyped
<1>4. CASE ~C!OnCatalog
  <2>1. UNCHANGED <<hist, at, relaid>> BY <1>1, <1>4, Zenon
  <2> QED BY <1>2, <1>3, <2>1 DEF HistTyped, NoLetters, Letter, Rest
<1>5. CASE C!OnCatalog /\ ~HasText(old)
  <2>1. C!Push(e) BY <1>1, <1>5, Zenon DEF HasText
  <2>2. old \in Visited BY ElementOfSeq DEF HistTyped
  <2>3. e \in Visited BY <2>2 DEF Visited, C!Catalog, C!Params
  <2>4. ~Letter(old, e) BY <1>5, Zenon DEF Letter
  <2>5. relaid => relaid' BY <1>1, Zenon
  <2>6. HistTyped' /\ NoLetters' BY <2>1, <2>3, <2>4, <2>5, PushStep, Zenon
  <2> QED BY <1>2, <1>3, <2>6
<1>6. CASE C!OnCatalog /\ HasText(old)
  <2>1. C!Replace(e) BY <1>1, <1>6, Zenon DEF HasText
  <2>2. relaid' <=> relaid BY <1>1, Zenon
  <2>3. HistTyped' /\ NoLetters' BY <1>6, <2>1, <2>2, ReplaceStep, Zenon DEF C!OnCatalog
  <2> QED BY <1>2, <1>3, <2>3
<1> QED BY <1>4, <1>5, <1>6

\* The filters offered are ones a URL can hold.
LEMMA FilterStep ==
    ASSUME CatalogInv,
           C!SetLayout \/ C!Toggle \/ C!ShowProblems \/ C!RemoveText \/ C!ClearFilters
    PROVE  CatalogInv'
<1>1. hist[at] \in Visited BY ElementOfSeq DEF CatalogInv, HistTyped
<1>2. C!filters \in C!Filters BY <1>1, FiltersParams DEF C!filters, Visited
<1>3. C!filters.tags \subseteq Tag /\ C!filters.owners \subseteq Owner
      /\ C!filters.status \subseteq C!Statuses
  BY <1>2 DEF C!Filters
<1>4. \A a \in listed : a.owner \in Owner \cup {None} /\ a.tags \subseteq Tag
  BY CpConstants DEF CatalogInv, BoxTyped, C!ApiRecord
<1>5. C!Facets.status \subseteq C!Statuses /\ C!Facets.owners \subseteq Owner
      /\ C!Facets.tags \subseteq Tag
  <2>1. C!Facets.owners = {a.owner : a \in listed} \ {None} BY DEF C!Facets
  <2>2. C!Facets.tags = UNION {a.tags : a \in listed} BY DEF C!Facets
  <2>3. C!Facets.status \subseteq C!Statuses BY DEF C!Facets
  <2> QED BY <1>4, <2>1, <2>2, <2>3
<1>6. CASE C!SetLayout
  <2>1. CASE \E v \in C!Views : C!Update([view |-> v])
    BY <2>1, UpdateStep, Zenon DEF Patches
  <2>2. CASE \E s \in C!Sorts \ {C!filters.sort} : C!Update([sort |-> s])
    BY <2>2, UpdateStep, Zenon DEF Patches
  <2> QED BY <1>6, <2>1, <2>2, Zenon DEF C!SetLayout
<1>7. CASE C!Toggle
  <2>1. CASE \E s \in C!Facets.status : C!Update([status |-> C!Flip(C!filters.status, s)])
    <3>1. PICK s \in C!Facets.status : C!Update([status |-> C!Flip(C!filters.status, s)])
      BY <2>1
    <3>2. C!Flip(C!filters.status, s) \in SUBSET C!Statuses BY <1>3, <1>5 DEF C!Flip
    <3> QED BY <3>1, <3>2, UpdateStep, Zenon DEF Patches
  <2>2. CASE \E o \in C!Facets.owners \cup C!filters.owners :
                 C!Update([owners |-> C!Flip(C!filters.owners, o)])
    <3>1. PICK o \in C!Facets.owners \cup C!filters.owners :
              C!Update([owners |-> C!Flip(C!filters.owners, o)])
      BY <2>2
    <3>2. C!Flip(C!filters.owners, o) \in SUBSET Owner BY <1>3, <1>5 DEF C!Flip
    <3> QED BY <3>1, <3>2, UpdateStep, Zenon DEF Patches
  <2>3. CASE \E t \in C!Facets.tags \cup C!filters.tags :
                 C!Update([tags |-> C!Flip(C!filters.tags, t)])
    <3>1. PICK t \in C!Facets.tags \cup C!filters.tags :
              C!Update([tags |-> C!Flip(C!filters.tags, t)])
      BY <2>3
    <3>2. C!Flip(C!filters.tags, t) \in SUBSET Tag BY <1>3, <1>5 DEF C!Flip
    <3> QED BY <3>1, <3>2, UpdateStep, Zenon DEF Patches
  <2> QED BY <1>7, <2>1, <2>2, <2>3, Zenon DEF C!Toggle
<1>8. CASE C!ShowProblems
  <2>1. {"specError"} \in SUBSET C!Statuses BY DEF C!Statuses
  <2> QED BY <1>8, <2>1, UpdateStep, Zenon DEF Patches, C!ShowProblems
<1>9. CASE C!RemoveText BY <1>9, UpdateStep, Zenon DEF Patches, C!RemoveText
<1>10. CASE C!ClearFilters BY <1>10, UpdateStep, Zenon DEF Patches, C!ClearFilters
<1> QED BY <1>6, <1>7, <1>8, <1>9, <1>10

\* The steps of the search, of the catalogue's fetch, and those of the other pages.
LEMMA SearchStep ==
    ASSUME CatalogInv,
           \/ C!Refetch \/ C!Debounce \/ C!RetrySearch \/ C!Expand
           \/ \E q \in running : C!SearchAnswer(q)
           \/ UNCHANGED catalogVars
    PROVE  CatalogInv'
<1> USE DEF CatalogInv
<1>1. hist[at] \in Visited BY ElementOfSeq DEF HistTyped
<1>2. C!filters.q \in C!Text BY <1>1, FiltersParams DEF C!filters, Visited, C!Params
<1>3. Long \subseteq C!Text BY DEF C!Text
<1>4. UNCHANGED <<hist, at, prefs, draft, relaid>> /\ listed' \subseteq Apis
  <2>1. CASE C!Refetch BY <2>1 DEF C!Refetch
  <2>2. CASE C!Debounce BY <2>2 DEF C!Debounce, BoxTyped
  <2>3. CASE C!RetrySearch BY <2>3 DEF C!RetrySearch, BoxTyped
  <2>4. CASE C!Expand BY <2>4 DEF C!Expand, BoxTyped
  <2>5. CASE \E q \in running : C!SearchAnswer(q) BY <2>5 DEF C!SearchAnswer, BoxTyped
  <2>6. CASE UNCHANGED catalogVars BY <2>6 DEF catalogVars, BoxTyped
  <2> QED BY <2>1, <2>2, <2>3, <2>4, <2>5, <2>6
<1>5. HistTyped' BY <1>4 DEF HistTyped
<1>6. NoLetters' BY <1>4 DEF NoLetters, Letter, Rest
<1>7. BoxTyped' BY <1>4, Zenon DEF BoxTyped
<1>8. SearchTyped'
  <2>1. CASE C!Refetch BY <2>1 DEF C!Refetch, C!searchVars, SearchTyped
  <2>2. CASE C!Debounce
    <3>1. debounced' = C!filters.q /\ UNCHANGED <<cache, expandedFor>>
          /\ (running' = {C!filters.q} \/ running' = {})
          /\ (previous' \in Long \/ previous' = previous)
      BY <2>2, Zenon DEF C!Debounce
    <3> QED BY <1>2, <1>3, <3>1 DEF SearchTyped
  <2>3. CASE C!RetrySearch
    <3>1. running' = {debounced} /\ UNCHANGED <<debounced, cache, previous, expandedFor>>
      BY <2>3, Zenon DEF C!RetrySearch
    <3> QED BY <3>1 DEF SearchTyped
  <2>4. CASE C!Expand BY <1>2, <2>4 DEF C!Expand, SearchTyped
  <2>5. CASE \E q \in running : C!SearchAnswer(q)
    <3>1. PICK q \in running : C!SearchAnswer(q) BY <2>5
    <3>2. PICK a \in {q, "error"} : cache' = [cache EXCEPT ![q] = a]
      BY <3>1, Zenon DEF C!SearchAnswer, C!SearchKey
    <3>3. q \in C!Text BY DEF SearchTyped
    <3>4. cache' \in [C!Text -> C!Text \cup {None, "error"}] BY <3>2, <3>3 DEF SearchTyped
    <3>5. running' \subseteq running /\ UNCHANGED <<debounced, previous, expandedFor>>
      BY <3>1 DEF C!SearchAnswer
    <3> QED BY <3>4, <3>5 DEF SearchTyped
  <2>6. CASE UNCHANGED catalogVars BY <2>6 DEF catalogVars, SearchTyped
  <2> QED BY <2>1, <2>2, <2>3, <2>4, <2>5, <2>6
<1> QED BY <1>5, <1>6, <1>7, <1>8

LEMMA CatalogPreserved == CatalogInv /\ [C!Next]_catalogVars => CatalogInv'
BY NavigationStep, GoStep, TypeStep, FilterStep, SearchStep, Zenon DEF C!Next

\* The invariant says more than the property: neighbours that differ in the text only.
LEMMA NoLettersShown == CatalogInv => BackSkipsLetters
<1> SUFFICES ASSUME CatalogInv, NEW i \in 1..(Len(hist) - 1), ~relaid,
                    hist[i].page = "catalog", hist[i + 1].page = "catalog",
                    [hist[i].params EXCEPT !.q = hist[i + 1].params.q] = hist[i + 1].params,
                    HasText(hist[i]), HasText(hist[i + 1])
             PROVE  FALSE
  BY Zenon DEF BackSkipsLetters, C!BackSkipsLetters, HasText
<1> DEFINE p == hist[i].params
           n == hist[i + 1].params
<1>1. hist[i] \in Visited /\ hist[i + 1] \in Visited
  BY ElementOfSeq DEF CatalogInv, HistTyped
<1>2. p \in C!Params /\ n \in C!Params BY <1>1 DEF Visited
<1> HIDE DEF p, n
<1>3. [p EXCEPT !.q = n.q] = n BY DEF p, n
<1>4. [[p EXCEPT !.q = n.q] EXCEPT !.q = ""] = [p EXCEPT !.q = ""] BY <1>2 DEF C!Params
<1>5. Rest(hist[i]) = Rest(hist[i + 1]) BY <1>3, <1>4, Zenon DEF Rest, p, n
<1> QED BY <1>5, Zenon DEF CatalogInv, NoLetters, Letter

-----------------------------------------------------------------------------
(* The shell *)

PageTyped ==
    /\ focus \in {"page", "field"} /\ drawer \in BOOLEAN
    /\ tab \in [{"page", "drawer"} -> 1..Tabs]
    /\ item \in 0..Items /\ listPage \in 1..ListPages
ShellTyped ==
    /\ PageTyped
    /\ help \in BOOLEAN /\ palette \in BOOLEAN /\ recentKey \in BOOLEAN /\ rendered \in BOOLEAN
    /\ pending \subseteq K!Sequence /\ viewable \subseteq K!Range(CatalogApis)

\* A sequence waits only after its first key, and that key reached the page.
Waits == pending # {} => lastKey.key = "g" /\ lastKey.heard
ShellInv == ShellTyped /\ Waits

LEMMA SkConstants ==
    /\ RECENT_MAX \in Nat /\ Tabs \in Nat /\ Items \in Nat /\ ListPages \in Nat
    /\ RECENT_MAX # 0 /\ Tabs # 0 /\ Items # 0 /\ ListPages # 0
    /\ 1 \in 1..Tabs /\ 1 \in 1..ListPages /\ 0 \in 0..Items
<1>1. /\ RECENT_MAX \in Nat /\ Tabs \in Nat /\ Items \in Nat /\ ListPages \in Nat
      /\ RECENT_MAX # 0 /\ Tabs # 0 /\ Items # 0 /\ ListPages # 0
  BY ShellAssumption, Zenon DEF K!ShellAssumption
<1> QED BY <1>1

LEMMA ShellInitial == PagesInit => ShellInv
<1> SUFFICES ASSUME K!SkInit PROVE ShellInv BY DEF PagesInit
<1>1. tab = [page |-> 1, drawer |-> 1] BY Zenon DEF K!SkInit
<1>2. tab \in [{"page", "drawer"} -> 1..Tabs] BY <1>1, SkConstants
<1>3. item = 0 /\ listPage = 1 /\ pending = {} /\ viewable = K!Range(CatalogApis)
  BY Zenon DEF K!SkInit
<1>4. /\ focus \in {"page", "field"} /\ drawer \in BOOLEAN /\ help \in BOOLEAN
      /\ palette \in BOOLEAN /\ recentKey \in BOOLEAN /\ rendered \in BOOLEAN
  BY Zenon DEF K!SkInit
<1>5. item \in 0..Items /\ listPage \in 1..ListPages BY <1>3, SkConstants
<1> QED BY <1>2, <1>3, <1>4, <1>5 DEF ShellInv, ShellTyped, PageTyped, Waits

\* Where a key may lead: another tab, item or page of the list, or another place.
LEMMA Moved ==
    ASSUME PageTyped
    PROVE  /\ \A n \in {1, Tabs - 1} : K!moveTab(n) \in [{"page", "drawer"} -> 1..Tabs]
           /\ \A down \in BOOLEAN : K!moveInList(down) \in 0..Items
<1> USE SkConstants DEF PageTyped
<1>1. ASSUME NEW n \in {1, Tabs - 1}
      PROVE  K!moveTab(n) \in [{"page", "drawer"} -> 1..Tabs]
  <2> DEFINE w == IF drawer THEN "drawer" ELSE "page"
  <2>1. w \in {"page", "drawer"} OBVIOUS
  <2> HIDE DEF w
  <2>2. ((tab[w] - 1 + n) % Tabs) + 1 \in 1..Tabs BY <2>1
  <2>3. K!moveTab(n) = [tab EXCEPT ![w] = ((@ - 1 + n) % Tabs) + 1]
    BY Zenon DEF K!moveTab, w
  <2> QED BY <2>1, <2>2, <2>3
<1>2. ASSUME NEW down \in BOOLEAN PROVE K!moveInList(down) \in 0..Items
  BY DEF K!moveInList
<1> QED BY <1>1, <1>2

LEMMA NavigateStep ==
    ASSUME PageTyped, NEW to, K!navigate(to)
    PROVE  PageTyped'
<1>1. CASE to = place
  <2>1. UNCHANGED <<focus, drawer, tab, item, listPage>> BY <1>1, Zenon DEF K!navigate
  <2> QED BY <2>1 DEF PageTyped
<1>2. CASE to # place
  <2>1. focus' = "page" /\ drawer' = FALSE /\ tab' = [page |-> 1, drawer |-> 1]
        /\ item' = 0 /\ listPage' = 1
    BY <1>2, Zenon DEF K!navigate
  <2>2. 1 \in 1..Tabs /\ 1 \in 1..ListPages /\ 0 \in 0..Items BY SkConstants
  <2>3. tab' \in [{"page", "drawer"} -> 1..Tabs] BY <2>1, <2>2
  <2> QED BY <2>1, <2>2, <2>3, Zenon DEF PageTyped
<1> QED BY <1>1, <1>2

\* A shortcut of one key: the palette or the help opens or closes, or the page moves.
LEMMA ShortcutStep ==
    ASSUME ShellTyped, NEW key \in K!Keys, K!runShortcut(key)
    PROVE  PageTyped' /\ help' \in BOOLEAN /\ palette' \in BOOLEAN
<1> USE DEF ShellTyped
<1>1. /\ IF key = "mod+k" THEN K!ShowPalette(~palette) ELSE UNCHANGED <<palette, K!paletteVars>>
      /\ help' = (help \/ key = "?")
      /\ focus' = IF key = "/" THEN "field" ELSE focus
      /\ tab' = IF key \in K!InDialog /\ ~help
                THEN K!moveTab(IF key = "]" THEN 1 ELSE Tabs - 1) ELSE tab
      /\ item' = IF key \in {"j", "k"} THEN K!moveInList(key = "j") ELSE item
      /\ K!clickShortcutTarget(key)
      /\ UNCHANGED <<place, drawer>>
  BY Zenon DEF K!runShortcut
<1>2. palette' \in BOOLEAN
  <2>1. CASE key = "mod+k" BY <1>1, <2>1, Zenon DEF K!ShowPalette
  <2>2. CASE key # "mod+k" BY <1>1, <2>2, Zenon
  <2> QED BY <2>1, <2>2
<1>3. help' \in BOOLEAN BY <1>1, Zenon
<1>4. focus' \in {"page", "field"} BY <1>1 DEF PageTyped
<1>5. tab' \in [{"page", "drawer"} -> 1..Tabs] BY <1>1, Moved, Zenon DEF PageTyped
<1>6. item' \in 0..Items
  <2>1. (key = "j") \in BOOLEAN BY Zenon
  <2> QED BY <1>1, <2>1, Moved, Zenon DEF PageTyped
<1>7. listPage' \in 1..ListPages
  <2>1. listPage' = CASE key = "n" /\ listPage < ListPages -> listPage + 1
                      [] key = "p" /\ listPage > 1 -> listPage - 1
                      [] OTHER -> listPage
    BY <1>1, Zenon DEF K!clickShortcutTarget
  <2> QED BY <2>1, SkConstants DEF PageTyped
<1>8. drawer' \in BOOLEAN BY <1>1, Zenon DEF PageTyped
<1> QED BY <1>2, <1>3, <1>4, <1>5, <1>6, <1>7, <1>8 DEF PageTyped

\* A key on the page.  "g c" and "g a" lead elsewhere only as second keys.
LEMMA KeyStep ==
    ASSUME ShellInv, NEW key \in K!Keys, NEW repeat \in BOOLEAN, K!onKey(key, repeat)
    PROVE  /\ ShellInv'
           /\ place' # place => key \in pending /\ recentKey /\ K!usable(key)
<1> USE DEF ShellInv
<1>1. /\ pending' = IF K!second(key) THEN {} ELSE K!waiting(key)
      /\ recentKey' = (pending' # {}) /\ rendered' = FALSE
      /\ lastKey' = [key |-> key, heard |-> K!usable(key)]
      /\ UNCHANGED K!dataVars
  BY Zenon DEF K!onKey
<1>2. \/ /\ K!second(key) /\ UNCHANGED <<help, palette>>
         /\ (\E to : K!navigate(to)) \/ UNCHANGED K!pageVars
      \/ ~K!second(key) /\ K!runShortcut(key)
      \/ UNCHANGED <<K!pageVars, help, palette>>
  BY Zenon DEF K!onKey
<1>3. PageTyped' /\ help' \in BOOLEAN /\ palette' \in BOOLEAN
  <2>1. CASE UNCHANGED <<help, palette>> /\ \E to : K!navigate(to)
    BY <2>1, NavigateStep, Zenon DEF ShellTyped
  <2>2. CASE UNCHANGED <<K!pageVars, help, palette>>
    BY <2>2 DEF ShellTyped, PageTyped, K!pageVars
  <2>3. CASE K!runShortcut(key) BY <2>3, ShortcutStep
  <2> QED BY <1>2, <2>1, <2>2, <2>3, Zenon
<1>4. recentKey' \in BOOLEAN /\ rendered' \in BOOLEAN BY <1>1, Zenon
<1>5. pending' \subseteq K!Sequence BY <1>1 DEF K!waiting
<1>6. viewable' = viewable BY <1>1, Zenon DEF K!dataVars
<1>7. Waits'
  <2> SUFFICES ASSUME pending' # {} PROVE lastKey'.key = "g" /\ lastKey'.heard
    BY Zenon DEF Waits
  <2>1. K!usable(key) /\ key = "g" BY <1>1, Zenon DEF K!waiting
  <2>2. lastKey'.key = key /\ lastKey'.heard = K!usable(key) BY <1>1
  <2> QED BY <2>1, <2>2, Zenon
<1>8. place' # place => key \in pending /\ recentKey /\ K!usable(key)
  <2>1. K!second(key) => key \in pending /\ recentKey /\ K!usable(key) BY Zenon DEF K!second
  <2>2. K!runShortcut(key) => place' = place BY Zenon DEF K!runShortcut
  <2>3. UNCHANGED K!pageVars => place' = place BY Zenon DEF K!pageVars
  <2> QED BY <1>2, <2>1, <2>2, <2>3, Zenon
<1> QED BY <1>3, <1>4, <1>5, <1>6, <1>7, <1>8, Zenon DEF ShellTyped

\* Every other step leaves the waiting keys or ends the wait, and leads to another place only
\* from the palette.
LEMMA OtherStep ==
    ASSUME ShellInv,
           \/ K!SequenceLate \/ K!Render \/ K!Enter \/ \E k \in 1..Len(K!items) : K!ClickItem(k)
           \/ \E q \in K!Texts \cup {""} : K!TypeText(q)
           \/ K!Arrows \/ K!SearchAnswer \/ K!Escape
           \/ \E f \in {"page", "field"}, open \in BOOLEAN : K!ClickPage(f, open)
           \/ \E what \in {"palette", "help"} : K!OpenFromBar(what)
           \/ \E i \in K!Range(CatalogApis) \cup {"catalog"} : K!OtherTab(i)
           \/ \E v \in SUBSET K!Range(CatalogApis), a \in BOOLEAN : K!Refetched(v, a)
           \/ UNCHANGED shellVars
    PROVE  ShellInv' /\ (place' # place => palette)
<1> USE DEF ShellInv, ShellTyped
<1>1. ASSUME UNCHANGED K!pageVars, UNCHANGED <<viewable, pending, lastKey>>, help' \in BOOLEAN,
             palette' \in BOOLEAN, recentKey' \in BOOLEAN, rendered' \in BOOLEAN
      PROVE  ShellInv' /\ (place' # place => palette)
  BY <1>1 DEF K!pageVars, PageTyped, Waits
<1>2. ASSUME NEW i, K!run(i), palette PROVE ShellInv' /\ (place' # place => palette)
  <2>1. help' = (help \/ i = "help") /\ palette' = FALSE /\ UNCHANGED viewable
        /\ UNCHANGED K!keyVars /\ (UNCHANGED K!pageVars \/ \E to : K!navigate(to))
    BY <1>2, Zenon DEF K!run, K!ShowPalette
  <2>2. PageTyped' BY <2>1, NavigateStep DEF PageTyped, K!pageVars
  <2>3. help' \in BOOLEAN /\ palette' \in BOOLEAN BY <2>1, Zenon
  <2>4. UNCHANGED <<viewable, pending, recentKey, rendered, lastKey>>
    BY <2>1, Zenon DEF K!keyVars
  <2> QED BY <1>2, <2>2, <2>3, <2>4 DEF Waits
<1>3. CASE K!SequenceLate BY <1>1, <1>3, Zenon DEF K!SequenceLate, K!dataVars
<1>4. CASE K!Render BY <1>1, <1>4, Zenon DEF K!Render, K!dataVars
<1>5. CASE K!Enter BY <1>2, <1>5, Zenon DEF K!Enter
<1>6. CASE \E k \in 1..Len(K!items) : K!ClickItem(k) BY <1>2, <1>6, Zenon DEF K!ClickItem
<1>7. CASE \E q \in K!Texts \cup {""} : K!TypeText(q)
  <2>1. pending' = {} /\ recentKey' = FALSE /\ rendered' = FALSE
        /\ UNCHANGED <<K!pageVars, viewable, help, palette>>
    BY <1>7, Zenon DEF K!TypeText, K!dataVars
  <2> QED BY <2>1 DEF K!pageVars, PageTyped, Waits
<1>8. CASE K!Arrows
  <2>1. PICK k : K!move(k) BY <1>8, Zenon DEF K!Arrows
  <2> QED BY <1>1, <2>1, Zenon DEF K!move, K!keyVars, K!dataVars
<1>9. CASE K!SearchAnswer BY <1>1, <1>9, Zenon DEF K!SearchAnswer, K!keyVars, K!dataVars
<1>10. CASE K!Escape
  <2>1. UNCHANGED <<focus, place, tab, item, listPage, viewable>> /\ UNCHANGED K!keyVars
        /\ (palette' = palette \/ palette' = FALSE)
        /\ help' = (help /\ palette) /\ drawer' = (drawer /\ (palette \/ help))
    BY <1>10, Zenon DEF K!Escape, K!dataVars, K!ShowPalette
  <2>2. help' \in BOOLEAN /\ palette' \in BOOLEAN /\ drawer' \in BOOLEAN BY <2>1, Zenon
  <2> QED BY <2>1, <2>2 DEF K!keyVars, PageTyped, Waits
<1>11. CASE \E f \in {"page", "field"}, open \in BOOLEAN : K!ClickPage(f, open)
  <2>1. PICK f \in {"page", "field"}, open \in BOOLEAN : K!ClickPage(f, open) BY <1>11
  <2>2. focus' = f /\ drawer' = open /\ tab' = [tab EXCEPT !.drawer = 1]
        /\ UNCHANGED <<place, item, listPage, viewable, help, palette>> /\ UNCHANGED K!keyVars
    BY <2>1, Zenon DEF K!ClickPage, K!dataVars
  <2>3. 1 \in 1..Tabs BY SkConstants, Zenon
  <2>4. tab' \in [{"page", "drawer"} -> 1..Tabs] BY <2>2, <2>3 DEF PageTyped
  <2> QED BY <2>2, <2>4 DEF K!keyVars, PageTyped, Waits
<1>12. CASE \E what \in {"palette", "help"} : K!OpenFromBar(what)
  <2>1. PICK what \in {"palette", "help"} : K!OpenFromBar(what) BY <1>12
  <2>2. rendered' = (pending # {}) /\ help' = (what = "help") /\ UNCHANGED K!pageVars
        /\ (palette' = palette \/ palette' = TRUE)
        /\ UNCHANGED <<viewable, pending, recentKey, lastKey>>
    BY <2>1, Zenon DEF K!OpenFromBar, K!dataVars, K!ShowPalette
  <2>3. rendered' \in BOOLEAN /\ help' \in BOOLEAN /\ palette' \in BOOLEAN BY <2>2, Zenon
  <2> QED BY <1>1, <2>2, <2>3, Zenon
<1>13. CASE \E i \in K!Range(CatalogApis) \cup {"catalog"} : K!OtherTab(i)
  BY <1>1, <1>13, Zenon DEF K!OtherTab, K!keyVars
<1>14. CASE \E v \in SUBSET K!Range(CatalogApis), a \in BOOLEAN : K!Refetched(v, a)
  <2>1. viewable' \subseteq K!Range(CatalogApis) /\ UNCHANGED K!pageVars
        /\ UNCHANGED K!keyVars /\ UNCHANGED <<help, palette>>
    BY <1>14, Zenon DEF K!Refetched
  <2> QED BY <2>1 DEF K!pageVars, K!keyVars, PageTyped, Waits
<1>15. CASE UNCHANGED shellVars BY <1>15 DEF shellVars, PageTyped, Waits
<1> QED BY <1>3, <1>4, <1>5, <1>6, <1>7, <1>8, <1>9, <1>10, <1>11, <1>12, <1>13, <1>14, <1>15

LEMMA ShellPreserved == ShellInv /\ [K!SkNext]_shellVars => ShellInv'
BY KeyStep, OtherStep, Zenon DEF K!SkNext

\* "g c" and "g a": the first key waits in pending, and it was the one before (Waits).
BothKeys ==
    place' # place /\ ~palette =>
       /\ lastKey.key = "g" /\ lastKey.heard /\ recentKey
       /\ lastKey'.key \in K!Sequence /\ ~K!dialogOpen /\ focus = "page"
LEMMA SequenceStep == ShellInv /\ [K!SkNext]_shellVars => BothKeys
<1> SUFFICES ASSUME ShellInv, [K!SkNext]_shellVars, place' # place, ~palette
             PROVE  /\ lastKey.key = "g" /\ lastKey.heard /\ recentKey
                    /\ lastKey'.key \in K!Sequence /\ ~K!dialogOpen /\ focus = "page"
  BY Zenon DEF BothKeys
<1>1. PICK key \in K!Keys, repeat \in BOOLEAN : K!onKey(key, repeat)
  BY OtherStep, Zenon DEF K!SkNext
<1>2. key \in pending /\ recentKey /\ K!usable(key) BY <1>1, KeyStep, Zenon
<1>3. lastKey.key = "g" /\ lastKey.heard BY <1>2, Zenon DEF ShellInv, Waits
<1>4. key \in K!Sequence BY <1>2, Zenon DEF ShellInv, ShellTyped
<1>5. lastKey'.key = key
  <2>1. lastKey' = [key |-> key, heard |-> K!usable(key)] BY <1>1, Zenon DEF K!onKey
  <2> QED BY <2>1
<1>6. key # "mod+k" /\ key \notin K!InDialog BY <1>4 DEF K!Sequence, K!InDialog
<1>7. ~K!isTyping /\ ~K!dialogOpen BY <1>2, <1>6, Zenon DEF K!usable
<1>8. focus # "field" BY <1>7, Zenon DEF K!isTyping
<1>9. focus = "page" BY <1>8, Zenon DEF ShellInv, ShellTyped, PageTyped
<1> QED BY <1>2, <1>3, <1>4, <1>5, <1>7, <1>9, Zenon

-----------------------------------------------------------------------------
(* Places and their numbers *)

\* The place of an item in a finite set under a total order R, counted from below.  Each has
\* its own.
Placing(P, R, i) == Cardinality({j \in P : <<j, i>> \in R})
Ordered(P, R) ==
    /\ \A i, j \in P : <<i, j>> \in R \/ <<j, i>> \in R
    /\ \A i, j \in P : <<i, j>> \in R /\ <<j, i>> \in R => i = j
    /\ \A i, j, k \in P : <<i, j>> \in R /\ <<j, k>> \in R => <<i, k>> \in R
Numbered(P, R) ==
    /\ Cardinality(P) \in Nat
    /\ \A i \in P : Placing(P, R, i) \in 1..Cardinality(P)
    /\ \A i, j \in P : <<i, j>> \in R /\ i # j => Placing(P, R, i) < Placing(P, R, j)
    /\ \A i, j \in P : Placing(P, R, i) = Placing(P, R, j) => i = j
    /\ \A k \in 1..Cardinality(P) : \E i \in P : Placing(P, R, i) = k
LEMMA Placings ==
    ASSUME NEW P, IsFiniteSet(P), NEW R, Ordered(P, R)
    PROVE  Numbered(P, R)
<1> DEFINE Upto(i) == {j \in P : <<j, i>> \in R}
<1> USE DEF Ordered
<1>1. Cardinality(P) \in Nat BY FS_CardinalityType
<1>2. ASSUME NEW i \in P
      PROVE  /\ IsFiniteSet(Upto(i))
             /\ Placing(P, R, i) \in 1..Cardinality(P) /\ Placing(P, R, i) \in Nat
  <2>1. Upto(i) \in SUBSET P OBVIOUS
  <2>2. IsFiniteSet(Upto(i)) /\ Cardinality(Upto(i)) <= Cardinality(P)
    BY <2>1, FS_Subset, Zenon
  <2>3. i \in Upto(i) OBVIOUS
  <2>4. Cardinality(Upto(i)) \in Nat /\ Cardinality(Upto(i)) # 0
    BY <2>2, <2>3, FS_CardinalityType, FS_EmptySet, Zenon
  <2> HIDE DEF Upto
  <2>5. Cardinality(Upto(i)) \in 1..Cardinality(P) BY <1>1, <2>2, <2>4
  <2> QED BY <2>2, <2>4, <2>5, Zenon DEF Placing, Upto
<1>3. ASSUME NEW i \in P, NEW j \in P, <<i, j>> \in R, i # j
      PROVE  Placing(P, R, i) < Placing(P, R, j)
  <2>1. Upto(i) \in SUBSET Upto(j) /\ j \in Upto(j) /\ j \notin Upto(i)
    BY <1>3, Zenon
  <2>2. IsFiniteSet(Upto(j)) BY <1>2
  <2>3. Cardinality(Upto(i)) <= Cardinality(Upto(j)) /\ Cardinality(Upto(i)) # Cardinality(Upto(j))
    BY <2>1, <2>2, FS_Subset, Zenon
  <2>4. /\ Placing(P, R, i) \in Nat /\ Placing(P, R, j) \in Nat
        /\ Placing(P, R, i) <= Placing(P, R, j) /\ Placing(P, R, i) # Placing(P, R, j)
    BY <1>2, <2>3, Zenon DEF Placing, Upto
  <2> QED BY <2>4
<1>4. ASSUME NEW i \in P, NEW j \in P, Placing(P, R, i) = Placing(P, R, j)
      PROVE  i = j
  <2>1. Placing(P, R, i) \in Nat /\ Placing(P, R, j) \in Nat BY <1>2
  <2>2. ~(Placing(P, R, i) < Placing(P, R, j)) /\ ~(Placing(P, R, j) < Placing(P, R, i))
    BY <1>4, <2>1
  <2> QED BY <1>3, <2>2, Zenon
<1>5. ASSUME NEW k \in 1..Cardinality(P) PROVE \E i \in P : Placing(P, R, i) = k
  <2> DEFINE places == 1..Cardinality(P)
             f == [i \in P |-> Placing(P, R, i)]
  <2>1. f \in [P -> places] BY <1>2
  <2>2. \A i, j \in P : f[i] = f[j] => i = j BY <1>4
  <2>3. IsFiniteSet(places) /\ Cardinality(places) = Cardinality(P) BY <1>1, FS_Interval
  <2> HIDE DEF f, places
  <2>4. f \in Injection(P, places) BY <2>1, <2>2, Zenon DEF Injection, IsInjective
  <2>5. f \in Surjection(P, places) BY <2>3, <2>4, FS_Injection, Zenon
  <2>6. \E i \in P : f[i] = k BY <2>5 DEF Surjection, places
  <2> QED BY <2>6 DEF f
<1> QED BY <1>1, <1>2, <1>3, <1>4, <1>5, Zenon DEF Numbered

\* The places of a set of numbers, counted from below.
Rank(P, i) == Cardinality({j \in P : j <= i})
Nth(P, k) == CHOOSE i \in P : Rank(P, i) = k
LEMMA InOrder ==
    ASSUME NEW n \in Nat, NEW P \in SUBSET (1..n)
    PROVE  /\ IsFiniteSet(P) /\ Cardinality(P) \in Nat /\ (P # {} => Cardinality(P) # 0)
           /\ \A k \in 1..Cardinality(P) : Nth(P, k) \in P
           /\ \A k, l \in 1..Cardinality(P) : k < l => Nth(P, k) < Nth(P, l)
           /\ \A i \in P : \E k \in 1..Cardinality(P) : Nth(P, k) = i
<1> DEFINE R == {x \in P \X P : x[1] <= x[2]}
           m == Cardinality(P)
<1>1. \A i \in P : i \in Nat OBVIOUS
<1>2. IsFiniteSet(P) /\ m \in Nat /\ (P # {} => m # 0)
  <2>1. IsFiniteSet(1..n) BY FS_Interval
  <2>2. IsFiniteSet(P) BY <2>1, FS_Subset
  <2> QED BY <2>2, FS_CardinalityType, FS_EmptySet
<1>3. \A i, j \in P : <<i, j>> \in R <=> i <= j OBVIOUS
<1> HIDE DEF R, m
<1>4. \A i \in P : Placing(P, R, i) = Rank(P, i)
  <2> SUFFICES ASSUME NEW i \in P PROVE Placing(P, R, i) = Rank(P, i) OBVIOUS
  <2>1. {j \in P : <<j, i>> \in R} = {j \in P : j <= i} BY <1>3
  <2> QED BY <2>1 DEF Placing, Rank
<1>5. Ordered(P, R) BY <1>1, <1>3 DEF Ordered
<1>6. /\ \A i \in P : Rank(P, i) \in 1..m
      /\ \A i, j \in P : i <= j /\ i # j => Rank(P, i) < Rank(P, j)
      /\ \A i, j \in P : Rank(P, i) = Rank(P, j) => i = j
      /\ \A k \in 1..m : \E i \in P : Rank(P, i) = k
  <2>1. /\ \A i \in P : Placing(P, R, i) \in 1..m
        /\ \A i, j \in P : <<i, j>> \in R /\ i # j => Placing(P, R, i) < Placing(P, R, j)
        /\ \A i, j \in P : Placing(P, R, i) = Placing(P, R, j) => i = j
        /\ \A k \in 1..m : \E i \in P : Placing(P, R, i) = k
    <3>1. IsFiniteSet(P) /\ Ordered(P, R) BY <1>2, <1>5
    <3>2. Numbered(P, R) BY <3>1, Placings, Zenon
    <3> QED BY <3>2, Zenon DEF Numbered, m
  <2>2. \A i, j \in P : i <= j /\ i # j => Rank(P, i) < Rank(P, j) BY <1>3, <1>4, <2>1, Zenon
  <2>3. /\ \A i \in P : Rank(P, i) \in 1..m
        /\ \A k \in 1..m : \E i \in P : Rank(P, i) = k
    BY <1>4, <2>1, Zenon
  <2>4. \A i, j \in P : Rank(P, i) = Rank(P, j) => i = j BY <1>4, <2>1, Zenon
  <2> QED BY <2>2, <2>3, <2>4, Zenon
<1>7. \A k \in 1..m : Nth(P, k) \in P /\ Rank(P, Nth(P, k)) = k BY <1>6, Zenon DEF Nth
<1>8. ASSUME NEW k \in 1..m, NEW l \in 1..m, k < l PROVE Nth(P, k) < Nth(P, l)
  <2>1. Nth(P, k) \in P /\ Nth(P, l) \in P /\ Rank(P, Nth(P, k)) = k /\ Rank(P, Nth(P, l)) = l
    BY <1>7
  <2>2. ~(l < k) /\ l # k /\ Nth(P, k) # Nth(P, l) BY <1>2, <1>8, <2>1
  <2>3. ~(Nth(P, l) <= Nth(P, k))
    <3> SUFFICES ASSUME Nth(P, l) <= Nth(P, k) PROVE FALSE OBVIOUS
    <3>1. Rank(P, Nth(P, l)) < Rank(P, Nth(P, k)) BY <1>6, <2>1, <2>2, Zenon
    <3> QED BY <1>2, <2>1, <2>2, <3>1
  <2>4. Nth(P, k) \in Nat /\ Nth(P, l) \in Nat BY <1>1, <2>1, Zenon
  <2> QED BY <2>3, <2>4
<1>9. ASSUME NEW i \in P PROVE \E k \in 1..m : Nth(P, k) = i
  <2>1. Rank(P, i) \in 1..m BY <1>6
  <2>2. Nth(P, Rank(P, i)) \in P /\ Rank(P, Nth(P, Rank(P, i))) = Rank(P, i) BY <1>7, <2>1
  <2> QED BY <1>6, <2>1, <2>2, Zenon
<1> QED BY <1>2, <1>7, <1>8, <1>9 DEF m

-----------------------------------------------------------------------------
(* Lists of items *)

\* Each instance has its own Cardinality; they are one.
LEMMA ShellCardinality == \A S : K!Cardinality(S) = Cardinality(S)
BY Zenon DEF K!Cardinality, Cardinality

\* What is kept of a list: its items, each from a place of its own, in the order of the places.
Spots(s, S) == {i \in DOMAIN s : s[i] \in S}
LEMMA KeepPlaces ==
    ASSUME NEW X, NEW s \in Seq(X), NEW S
    PROVE  /\ K!Keep(s, S) \in Seq(X) /\ Len(K!Keep(s, S)) = Cardinality(Spots(s, S))
           /\ IsFiniteSet(Spots(s, S))
           /\ \E e \in [1..Cardinality(Spots(s, S)) -> Spots(s, S)] :
                 /\ \A k \in 1..Cardinality(Spots(s, S)) : K!Keep(s, S)[k] = s[e[k]]
                 /\ \A k, l \in 1..Cardinality(Spots(s, S)) : k < l => e[k] < e[l]
                 /\ \A i \in Spots(s, S) : \E k \in 1..Cardinality(Spots(s, S)) : e[k] = i
<1> DEFINE kept == Spots(s, S)
           m == Cardinality(kept)
           e == [k \in 1..m |-> Nth(kept, k)]
<1>1. Len(s) \in Nat /\ kept \in SUBSET (1..Len(s)) /\ \A i \in kept : s[i] \in X
  BY LenProperties DEF Spots
<1>2. K!Keep(s, S) = [k \in 1..m |-> s[Nth(kept, k)]]
  <2>1. K!Keep(s, S) = [k \in 1..K!Cardinality(kept) |->
                          s[CHOOSE i \in kept : K!Cardinality({j \in kept : j <= i}) = k]]
    BY Zenon DEF K!Keep, Spots
  <2> QED BY <2>1, ShellCardinality, Zenon DEF Nth, Rank
<1>3. /\ IsFiniteSet(kept) /\ m \in Nat
      /\ \A k \in 1..m : Nth(kept, k) \in kept
      /\ \A k, l \in 1..m : k < l => Nth(kept, k) < Nth(kept, l)
      /\ \A i \in kept : \E k \in 1..m : Nth(kept, k) = i
  BY <1>1, InOrder
<1> HIDE DEF kept, m
<1>4. K!Keep(s, S) \in Seq(X) /\ Len(K!Keep(s, S)) = m
  <2>1. K!Keep(s, S) \in [1..m -> X] BY <1>1, <1>2, <1>3
  <2> QED BY <1>3, <2>1, IsASeq, LenProperties
<1>5. /\ e \in [1..m -> kept] /\ \A k \in 1..m : K!Keep(s, S)[k] = s[e[k]]
      /\ \A k, l \in 1..m : k < l => e[k] < e[l]
      /\ \A i \in kept : \E k \in 1..m : e[k] = i
  BY <1>2, <1>3
<1> QED BY <1>3, <1>4, <1>5, Zenon DEF m, kept

\* What is in a list, and a list that names nothing twice.
LEMMA ListFacts ==
    ASSUME NEW X, NEW s \in Seq(X)
    PROVE  /\ K!Range(s) = {s[i] : i \in 1..Len(s)} /\ K!Range(s) \subseteq X
           /\ K!IsInjective(s) <=> \A i, j \in 1..Len(s) : s[i] = s[j] => i = j
           /\ s \in Seq(K!Range(s))
<1>1. Len(s) \in Nat /\ DOMAIN s = 1..Len(s) /\ s \in [1..Len(s) -> X] BY LenProperties
<1>2. s \in [1..Len(s) -> K!Range(s)] BY <1>1 DEF K!Range
<1>3. K!Range(s) = {s[i] : i \in 1..Len(s)} /\ K!Range(s) \subseteq X BY <1>1 DEF K!Range
<1>4. K!IsInjective(s) <=> \A i, j \in 1..Len(s) : s[i] = s[j] => i = j
  BY <1>1, Zenon DEF K!IsInjective
<1>5. s \in Seq(K!Range(s)) BY <1>1, <1>2, IsASeq
<1> QED BY <1>3, <1>4, <1>5, Zenon

LEMMA ListPlaces ==
    ASSUME NEW X, NEW s \in Seq(X)
    PROVE  /\ Len(s) \in Nat /\ DOMAIN s = 1..Len(s) /\ K!Range(s) = {s[k] : k \in 1..Len(s)}
           /\ K!IsInjective(s) <=> \A k, l \in 1..Len(s) : s[k] = s[l] => k = l
<1>1. Len(s) \in Nat /\ DOMAIN s = 1..Len(s) BY LenProperties
<1> QED BY <1>1, ListFacts, Zenon

LEMMA KeepFacts ==
    ASSUME NEW X, NEW s \in Seq(X), NEW S
    PROVE  /\ K!Keep(s, S) \in Seq(X) /\ K!Range(K!Keep(s, S)) = K!Range(s) \cap S
           /\ K!IsInjective(s) => K!IsInjective(K!Keep(s, S))
<1> DEFINE t == K!Keep(s, S)
           kept == Spots(s, S)
           m == Cardinality(kept)
<1>1. t \in Seq(X) /\ Len(t) = m BY KeepPlaces
<1>2. PICK e \in [1..m -> kept] :
          /\ \A k \in 1..m : t[k] = s[e[k]]
          /\ \A k, l \in 1..m : k < l => e[k] < e[l]
          /\ \A i \in kept : \E k \in 1..m : e[k] = i
  BY KeepPlaces
<1>3. DOMAIN s = 1..Len(s) /\ DOMAIN t = 1..m /\ m \in Nat BY <1>1, LenProperties
<1> HIDE DEF t, m
<1>4. \A k \in 1..m : e[k] \in 1..Len(s) /\ s[e[k]] \in S /\ t[k] = s[e[k]]
  BY <1>2, <1>3 DEF Spots
<1>5. K!Range(t) = K!Range(s) \cap S
  <2>1. K!Range(t) \subseteq K!Range(s) \cap S BY <1>3, <1>4 DEF K!Range
  <2>2. ASSUME NEW x \in K!Range(s) \cap S PROVE x \in K!Range(t)
    <3>1. PICK i \in DOMAIN s : s[i] = x BY DEF K!Range
    <3>2. i \in kept BY <3>1 DEF Spots
    <3>3. PICK k \in 1..m : e[k] = i BY <1>2, <3>2
    <3> QED BY <1>2, <1>3, <3>1, <3>3 DEF K!Range
  <2> QED BY <2>1, <2>2
<1>6. ASSUME K!IsInjective(s) PROVE K!IsInjective(t)
  <2> SUFFICES ASSUME NEW k \in 1..m, NEW l \in 1..m, t[k] = t[l] PROVE k = l
    BY <1>3 DEF K!IsInjective
  <2>1. e[k] = e[l] BY <1>3, <1>4, <1>6 DEF K!IsInjective
  <2>2. e[k] \in Nat /\ k \in Nat /\ l \in Nat BY <1>3, <1>4
  <2>3. ~(k < l) /\ ~(l < k) BY <1>2, <2>1, <2>2
  <2> QED BY <2>2, <2>3
<1> QED BY <1>1, <1>5, <1>6 DEF t

LEMMA TakeFacts ==
    ASSUME NEW X, NEW s \in Seq(X), NEW n \in Nat
    PROVE  /\ K!Take(s, n) \in Seq(X)
           /\ Len(K!Take(s, n)) = IF Len(s) < n THEN Len(s) ELSE n
           /\ \A i \in 1..Len(K!Take(s, n)) : K!Take(s, n)[i] = s[i]
           /\ K!Range(K!Take(s, n)) \subseteq K!Range(s)
           /\ K!IsInjective(s) => K!IsInjective(K!Take(s, n))
<1> DEFINE m == IF Len(s) < n THEN Len(s) ELSE n
           t == K!Take(s, n)
<1>1. m \in Nat /\ m <= Len(s) /\ Len(s) \in Nat BY LenProperties
<1>2. t = SubSeq(s, 1, m) BY DEF K!Take
<1> HIDE DEF t, m
<1>3. \A i \in 1..m : s[i] \in X BY <1>1, ElementOfSeq
<1>4. t \in Seq(X) /\ Len(t) = m /\ \A i \in 1..m : t[i] = s[i]
  BY <1>1, <1>2, <1>3, SubSeqProperties
<1>5. K!Range(t) \subseteq K!Range(s)
  <2>1. K!Range(s) = {s[i] : i \in 1..Len(s)} /\ K!Range(t) = {t[i] : i \in 1..m}
    BY <1>4, ListFacts
  <2> QED BY <1>1, <1>4, <2>1
<1>6. K!IsInjective(s) => K!IsInjective(t)
  <2>1. \A i \in 1..m : i \in 1..Len(s) BY <1>1
  <2>2. /\ K!IsInjective(s) <=> \A i, j \in 1..Len(s) : s[i] = s[j] => i = j
        /\ K!IsInjective(t) <=> \A i, j \in 1..m : t[i] = t[j] => i = j
    BY <1>4, ListFacts
  <2> QED BY <1>4, <2>1, <2>2
<1> QED BY <1>4, <1>5, <1>6 DEF t, m

LEMMA JoinFacts ==
    ASSUME NEW X, NEW s \in Seq(X), NEW t \in Seq(X)
    PROVE  /\ s \o t \in Seq(X) /\ K!Range(s \o t) = K!Range(s) \cup K!Range(t)
           /\ K!IsInjective(s) /\ K!IsInjective(t) /\ K!Range(s) \cap K!Range(t) = {}
              => K!IsInjective(s \o t)
<1> DEFINE u == s \o t
           a == Len(s)
           b == Len(t)
<1>1. /\ u \in Seq(X) /\ Len(u) = a + b /\ a \in Nat /\ b \in Nat
      /\ \A i \in 1..(a + b) : u[i] = IF i <= a THEN s[i] ELSE t[i - a]
  BY ConcatProperties, LenProperties
<1>2. /\ K!Range(u) = {u[i] : i \in 1..(a + b)} /\ K!Range(s) = {s[i] : i \in 1..a}
      /\ K!Range(t) = {t[i] : i \in 1..b}
  BY <1>1, ListFacts
<1>3. K!IsInjective(u) <=> \A i, j \in 1..(a + b) : u[i] = u[j] => i = j BY <1>1, ListFacts
<1>4. /\ K!IsInjective(s) <=> \A i, j \in 1..a : s[i] = s[j] => i = j
      /\ K!IsInjective(t) <=> \A i, j \in 1..b : t[i] = t[j] => i = j
  BY ListFacts
<1> HIDE DEF u, a, b
<1>5. /\ \A i \in 1..(a + b) : \/ i \in 1..a /\ u[i] = s[i]
                               \/ i - a \in 1..b /\ ~(i <= a) /\ u[i] = t[i - a]
      /\ \A i \in 1..a : i \in 1..(a + b) /\ u[i] = s[i]
      /\ \A i \in 1..b : i + a \in 1..(a + b) /\ u[i + a] = t[i]
  BY <1>1
<1>6. K!Range(u) = K!Range(s) \cup K!Range(t) BY <1>2, <1>5
<1>7. ASSUME K!IsInjective(s), K!IsInjective(t), K!Range(s) \cap K!Range(t) = {}
      PROVE  K!IsInjective(u)
  <2> SUFFICES ASSUME NEW i \in 1..(a + b), NEW j \in 1..(a + b), u[i] = u[j] PROVE i = j
    BY <1>3
  <2>1. CASE i <= a /\ j <= a
    <3>1. i \in 1..a /\ j \in 1..a /\ u[i] = s[i] /\ u[j] = s[j] BY <1>1, <2>1
    <3> QED BY <1>4, <1>7, <3>1
  <2>2. CASE ~(i <= a) /\ ~(j <= a)
    <3>1. i - a \in 1..b /\ j - a \in 1..b /\ u[i] = t[i - a] /\ u[j] = t[j - a]
      BY <1>1, <2>2
    <3>2. i - a = j - a BY <1>4, <1>7, <3>1
    <3> QED BY <1>1, <3>2
  <2>3. CASE (i <= a /\ ~(j <= a)) \/ (j <= a /\ ~(i <= a))
    <3>1. \/ u[i] \in K!Range(s) /\ u[j] \in K!Range(t)
          \/ u[j] \in K!Range(s) /\ u[i] \in K!Range(t)
      BY <1>2, <1>5, <2>3
    <3> QED BY <1>7, <3>1
  <2> QED BY <2>1, <2>2, <2>3
<1> QED BY <1>1, <1>6, <1>7 DEF u

LEMMA OneFacts ==
    ASSUME NEW X, NEW x \in X
    PROVE  <<x>> \in Seq(X) /\ K!Range(<<x>>) = {x} /\ K!IsInjective(<<x>>)
BY DEF K!Range, K!IsInjective
LEMMA NoneFacts == \A X : <<>> \in Seq(X) /\ K!Range(<<>>) = {} /\ K!IsInjective(<<>>)
BY DEF K!Range, K!IsInjective

-----------------------------------------------------------------------------
(* The recents *)

Item == K!OwnItems \cup K!Range(CatalogApis) \cup K!Operations

\* RecentsAreUses, of any recents and uses.
After(u, x, y) == \E n \in DOMAIN u : u[n] = x /\ \A m \in 1..n : u[m] # y
Recents(st, u) ==
    /\ Len(st) <= RECENT_MAX /\ K!Range(st) \subseteq K!Range(u)
    /\ \A k, l \in DOMAIN st : k < l => After(u, st[k], st[l])
    /\ \A y \in K!Range(u) \ K!Range(st) :
          Len(st) = RECENT_MAX /\ \A k \in DOMAIN st : After(u, st[k], y)

\* An item used after another is another one; and one that is used now comes before all.
LEMMA UsedFacts ==
    ASSUME NEW u \in Seq(Item), NEW i \in Item, NEW u2, u2 = <<i>> \o u
    PROVE  /\ u2 \in Seq(Item) /\ K!Range(u2) = K!Range(u) \cup {i}
           /\ \A x, y : After(u, x, y) => x # y
           /\ \A y : y # i => After(u2, i, y)
           /\ \A x, y : y # i /\ After(u, x, y) => After(u2, x, y)
<1> DEFINE n == Len(u)
<1>1. u \in Seq(Item) /\ <<i>> \in Seq(Item) BY OneFacts
<1>2. /\ u2 \in Seq(Item) /\ Len(u2) = n + 1 /\ n \in Nat /\ u2[1] = i
      /\ \A k \in 1..n : u2[k + 1] = u[k] /\ k + 1 \in 1..(n + 1)
      /\ DOMAIN u = 1..n /\ DOMAIN u2 = 1..(n + 1)
  BY <1>1, ConcatProperties, LenProperties
<1>3. K!Range(u2) = K!Range(u) \cup {i}
  <2>1. \A s, t \in Seq(Item) : K!Range(s \o t) = K!Range(s) \cup K!Range(t) BY JoinFacts
  <2>2. K!Range(u2) = K!Range(<<i>>) \cup K!Range(u) BY <1>1, <2>1, Zenon
  <2>3. K!Range(<<i>>) = {i} BY OneFacts
  <2> QED BY <2>2, <2>3
<1> HIDE DEF n
<1>4. ASSUME NEW x, NEW y, After(u, x, y) PROVE x # y
  <2>1. PICK k \in 1..n : u[k] = x /\ \A m \in 1..k : u[m] # y
    BY <1>2, <1>4 DEF After
  <2>2. k \in 1..k BY <1>2, <2>1
  <2> QED BY <2>1, <2>2
<1>5. ASSUME NEW y, y # i PROVE After(u2, i, y)
  <2>1. 1 \in 1..(n + 1) /\ \A m \in 1..1 : u2[m] # y BY <1>2, <1>5
  <2> QED BY <1>2, <2>1 DEF After
<1>6. ASSUME NEW x, NEW y, y # i, After(u, x, y) PROVE After(u2, x, y)
  <2>1. PICK k \in 1..n : u[k] = x /\ \A m \in 1..k : u[m] # y
    BY <1>2, <1>6 DEF After
  <2>2. ASSUME NEW m \in 1..(k + 1) PROVE u2[m] # y
    <3>1. CASE m = 1 BY <1>2, <1>6, <3>1
    <3>2. CASE m # 1
      <4>1. m - 1 \in 1..k /\ m - 1 \in 1..n /\ (m - 1) + 1 = m BY <1>2, <2>1, <3>2
      <4>2. u2[m] = u[m - 1] BY <1>2, <4>1
      <4> QED BY <2>1, <4>1, <4>2
    <3> QED BY <3>1, <3>2
  <2> QED BY <1>2, <2>1, <2>2 DEF After
<1> QED BY <1>2, <1>3, <1>4, <1>5, <1>6


\* A list without an item is at most one shorter, if the list names nothing twice.
LEMMA WithoutOne ==
    ASSUME NEW X, NEW s \in Seq(X), NEW x, K!IsInjective(s)
    PROVE  Cardinality(Spots(s, K!Range(s) \ {x})) + 1 >= Len(s)
<1> DEFINE spots == Spots(s, K!Range(s) \ {x})
           n == Len(s)
<1>1. n \in Nat /\ DOMAIN s = 1..n /\ K!Range(s) = {s[k] : k \in 1..n}
      /\ \A k, l \in 1..n : s[k] = s[l] => k = l
  BY ListPlaces
<1>2. \A p : p \in spots <=> p \in 1..n /\ s[p] # x BY <1>1 DEF Spots
<1> HIDE DEF spots, n
<1>3. IsFiniteSet(1..n) /\ Cardinality(1..n) = n
  <2>1. 1 \in Int /\ n \in Int BY <1>1
  <2>2. IsFiniteSet(1..n) /\ Cardinality(1..n) = IF 1 > n THEN 0 ELSE n - 1 + 1
    BY <2>1, FS_Interval, Zenon
  <2> QED BY <1>1, <2>2
<1>4. CASE \A p \in 1..n : s[p] # x
  <2>1. spots = 1..n BY <1>2, <1>4
  <2> QED BY <1>1, <1>3, <2>1 DEF spots, n
<1>5. CASE \E p \in 1..n : s[p] = x
  <2>1. PICK p \in 1..n : s[p] = x BY <1>5
  <2>2. spots = (1..n) \ {p} BY <1>1, <1>2, <2>1
  <2>3. Cardinality((1..n) \ {p}) = Cardinality(1..n) - 1 BY <1>3, <2>1, FS_RemoveElement
  <2>4. Cardinality(spots) + 1 >= n BY <1>1, <1>3, <2>2, <2>3
  <2> QED BY <2>4 DEF spots, n
<1> QED BY <1>4, <1>5

\* An item put in front of the others of a list, as far as there is room.
Front(st, i, N) == K!Take(<<i>> \o K!Without(st, {i}), N)
\* Where the items behind the first come from: the m other places of the old list, in order.
Placed(old, new, i, m, e) ==
    /\ new[1] = i
    /\ \A k \in 2..Len(new) : k - 1 \in 1..m /\ new[k] = old[e[k - 1]]
    /\ \A k \in 1..m : old[e[k]] # i
    /\ \A k, l \in 1..m : k < l => e[k] < e[l]
    /\ \A p \in 1..Len(old) : old[p] # i => \E k \in 1..m : e[k] = p
LEMMA FrontPlaces ==
    ASSUME NEW X, NEW st \in Seq(X), NEW i \in X, NEW N \in Nat, N # 0
    PROVE  /\ Front(st, i, N) \in Seq(X)
           /\ \E m \in Nat : \E e \in [1..m -> 1..Len(st)] :
                /\ Len(Front(st, i, N)) = IF m + 1 < N THEN m + 1 ELSE N
                /\ K!IsInjective(st) => m + 1 >= Len(st)
                /\ Placed(st, Front(st, i, N), i, m, e)
<1> DEFINE others == K!Range(st) \ {i}
           kept == K!Keep(st, others)
           spots == Spots(st, others)
           m == Cardinality(spots)
           L == <<i>> \o kept
           t == Front(st, i, N)
<1>1. K!IsInjective(st) => m + 1 >= Len(st) BY WithoutOne
<1>2. Len(st) \in Nat /\ DOMAIN st = 1..Len(st) /\ K!Range(st) = {st[k] : k \in 1..Len(st)}
  BY ListPlaces
<1>3. \A p : p \in spots <=> p \in 1..Len(st) /\ st[p] # i BY <1>2 DEF Spots
<1> HIDE DEF others
<1>4. kept \in Seq(X) /\ Len(kept) = m BY KeepPlaces
<1>5. \E e \in [1..m -> spots] :
          /\ \A k \in 1..m : kept[k] = st[e[k]]
          /\ \A k, l \in 1..m : k < l => e[k] < e[l]
          /\ \A p \in spots : \E k \in 1..m : e[k] = p
  BY KeepPlaces
<1>6. t = K!Take(L, N) BY Zenon DEF Front, K!Without, others
<1> HIDE DEF kept, spots, m, t
<1>7. PICK e \in [1..m -> spots] :
          /\ \A k \in 1..m : kept[k] = st[e[k]]
          /\ \A k, l \in 1..m : k < l => e[k] < e[l]
          /\ \A p \in spots : \E k \in 1..m : e[k] = p
  BY <1>5
<1>8. m \in Nat BY <1>4, LenProperties
<1>9. L \in Seq(X) /\ Len(L) = 1 + m
      /\ \A k \in 1..(1 + m) : L[k] = IF k <= 1 THEN <<i>>[k] ELSE kept[k - 1]
  <2>1. <<i>> \in Seq(X) /\ Len(<<i>>) = 1 BY OneFacts
  <2> QED BY <1>4, <2>1, ConcatProperties
<1> HIDE DEF L
<1>10. t \in Seq(X) /\ Len(t) = (IF 1 + m < N THEN 1 + m ELSE N)
       /\ \A k \in 1..Len(t) : t[k] = L[k]
  <2>1. K!Take(L, N) \in Seq(X) /\ Len(K!Take(L, N)) = (IF Len(L) < N THEN Len(L) ELSE N)
        /\ \A k \in 1..Len(K!Take(L, N)) : K!Take(L, N)[k] = L[k]
    BY <1>9, TakeFacts, Zenon
  <2> QED BY <1>6, <1>9, <2>1, Zenon
<1>11. Len(t) \in Nat /\ 1 <= Len(t) /\ Len(t) <= 1 + m BY <1>8, <1>10
<1>12. t[1] = i
  <2>1. 1 \in 1..Len(t) /\ 1 \in 1..(1 + m) BY <1>8, <1>11
  <2>2. L[1] = <<i>>[1] BY <1>9, <2>1
  <2> QED BY <1>10, <2>1, <2>2
<1>13. ASSUME NEW k \in 2..Len(t) PROVE k - 1 \in 1..m /\ t[k] = st[e[k - 1]]
  <2>1. k \in 1..Len(t) /\ k \in 1..(1 + m) /\ ~(k <= 1) /\ k - 1 \in 1..m
    BY <1>8, <1>11
  <2>2. L[k] = kept[k - 1] BY <1>9, <2>1
  <2> QED BY <1>7, <1>10, <2>1, <2>2
<1>14. e \in [1..m -> 1..Len(st)] /\ \A k \in 1..m : st[e[k]] # i
  <2>1. ASSUME NEW k \in 1..m PROVE e[k] \in 1..Len(st) /\ st[e[k]] # i BY <1>3, <1>7
  <2> QED BY <1>7, <2>1
<1>15. \A p \in 1..Len(st) : st[p] # i => \E k \in 1..m : e[k] = p BY <1>3, <1>7
<1>16. Len(t) = IF m + 1 < N THEN m + 1 ELSE N BY <1>8, <1>10
<1>17. K!IsInjective(st) => m + 1 >= Len(st) BY <1>1, Zenon DEF m
<1>18. Placed(st, t, i, m, e) BY <1>7, <1>12, <1>13, <1>14, <1>15, Zenon DEF Placed
<1> QED BY <1>8, <1>10, <1>14, <1>16, <1>17, <1>18, Zenon DEF t

\* The recents stay the last items used: the one just used comes to the front, an item that
\* was a recent moves one place back at most, and one that drops out was used before the rest.
Core(N, n, m, n2, st, st2, u, u2, U, i, e) ==
    /\ N \in Nat /\ N # 0 /\ n \in Nat /\ m \in Nat /\ n2 \in Nat /\ e \in [1..m -> 1..n]
    /\ n2 = IF m + 1 < N THEN m + 1 ELSE N
    /\ n = N => m + 1 >= n
    /\ st2[1] = i
    /\ \A k \in 2..n2 : k - 1 \in 1..m /\ st2[k] = st[e[k - 1]]
    /\ \A k \in 1..m : st[e[k]] # i
    /\ \A k, l \in 1..m : k < l => e[k] < e[l]
    /\ \A p \in 1..n : st[p] # i => \E k \in 1..m : e[k] = p
    /\ \A y : y # i => After(u2, i, y)
    /\ \A x, y : y # i /\ After(u, x, y) => After(u2, x, y)
    /\ \A k, l \in 1..n : k < l => After(u, st[k], st[l])
    /\ \A y \in U : (\A k \in 1..n : st[k] # y) => n = N /\ \A k \in 1..n : After(u, st[k], y)
Latest(N, n2, st2, u2, U) ==
    /\ n2 <= N
    /\ \A k, l \in 1..n2 : k < l => After(u2, st2[k], st2[l])
    /\ \A y \in U : (\A k \in 1..n2 : st2[k] # y)
                 => n2 = N /\ \A k \in 1..n2 : After(u2, st2[k], y)
LEMMA RecentsCore ==
    ASSUME NEW N, NEW n, NEW m, NEW n2, NEW st, NEW st2, NEW u, NEW u2, NEW U, NEW i, NEW e,
           Core(N, n, m, n2, st, st2, u, u2, U, i, e)
    PROVE  Latest(N, n2, st2, u2, U \cup {i})
<1> USE DEF Core
<1>1. n2 <= N /\ n2 <= m + 1 /\ 1 <= n2 OBVIOUS
<1>2. ASSUME NEW k \in 1..n2, k # 1
      PROVE  k - 1 \in 1..m /\ e[k - 1] \in 1..n /\ st2[k] = st[e[k - 1]] /\ st2[k] # i
  <2>1. k \in 2..n2 BY <1>2
  <2> QED BY <2>1
<1>3. ASSUME NEW k \in 1..n2, NEW l \in 1..n2, k < l
      PROVE  After(u2, st2[k], st2[l])
  <2>1. l # 1 BY <1>3
  <2>2. l - 1 \in 1..m /\ e[l - 1] \in 1..n /\ st2[l] = st[e[l - 1]] /\ st2[l] # i
    BY <1>2, <2>1
  <2>3. CASE k = 1 BY <2>2, <2>3
  <2>4. CASE k # 1
    <3>1. k - 1 \in 1..m /\ e[k - 1] \in 1..n /\ st2[k] = st[e[k - 1]] BY <1>2, <2>4
    <3>2. e[k - 1] < e[l - 1]
      <4>1. k - 1 < l - 1 BY <1>3
      <4> QED BY <2>2, <3>1, <4>1
    <3>3. After(u, st[e[k - 1]], st[e[l - 1]]) BY <2>2, <3>1, <3>2
    <3> QED BY <2>2, <3>1, <3>3
  <2> QED BY <2>3, <2>4
<1>4. ASSUME NEW y \in U \cup {i}, \A k \in 1..n2 : st2[k] # y
      PROVE  n2 = N /\ \A k \in 1..n2 : After(u2, st2[k], y)
  <2>1. y # i /\ y \in U
    <3>1. 1 \in 1..n2 BY <1>1
    <3> QED BY <1>4, <3>1
  <2>2. CASE \E p \in 1..n : st[p] = y
    <3>1. PICK p \in 1..n : st[p] = y BY <2>2
    <3>2. PICK q \in 1..m : e[q] = p BY <2>1, <3>1
    <3>3. ~(q + 1 <= n2)
      <4> SUFFICES ASSUME q + 1 <= n2 PROVE FALSE OBVIOUS
      <4>1. q + 1 \in 1..n2 /\ q + 1 # 1 /\ (q + 1) - 1 = q OBVIOUS
      <4>2. st2[q + 1] = y BY <1>2, <3>1, <3>2, <4>1
      <4> QED BY <1>4, <4>1, <4>2
    <3>4. n2 = N /\ n2 < q + 1 BY <3>3
    <3>5. ASSUME NEW k \in 1..n2, k # 1 PROVE After(u2, st2[k], y)
      <4>1. k - 1 \in 1..m /\ e[k - 1] \in 1..n /\ st2[k] = st[e[k - 1]] BY <1>2, <3>5
      <4>2. k - 1 < q BY <3>4
      <4>3. e[k - 1] < p BY <3>2, <4>1, <4>2
      <4>4. After(u, st[e[k - 1]], y) BY <3>1, <4>1, <4>3
      <4> QED BY <2>1, <4>1, <4>4
    <3> QED BY <2>1, <3>4, <3>5
  <2>3. CASE \A p \in 1..n : st[p] # y
    <3>1. n = N /\ \A k \in 1..n : After(u, st[k], y) BY <2>1, <2>3
    <3>2. n2 = N BY <3>1
    <3>3. ASSUME NEW k \in 1..n2, k # 1 PROVE After(u2, st2[k], y)
      <4>1. e[k - 1] \in 1..n /\ st2[k] = st[e[k - 1]] BY <1>2, <3>3
      <4> QED BY <2>1, <3>1, <4>1
    <3> QED BY <2>1, <3>2, <3>3
  <2> QED BY <2>2, <2>3
<1> HIDE DEF Core
<1> QED BY <1>1, <1>3, <1>4, Zenon DEF Latest

LEMMA RecentsStep ==
    ASSUME NEW st \in Seq(Item), NEW u \in Seq(Item), Recents(st, u), NEW i \in Item
    PROVE  /\ Front(st, i, RECENT_MAX) \in Seq(Item) /\ <<i>> \o u \in Seq(Item)
           /\ Recents(Front(st, i, RECENT_MAX), <<i>> \o u) /\ K!IsInjective(st)
<1> DEFINE st2 == Front(st, i, RECENT_MAX)
           u2 == <<i>> \o u
           N == RECENT_MAX
           n == Len(st)
           n2 == Len(st2)
           U == K!Range(u)
<1>1. /\ u2 \in Seq(Item) /\ K!Range(u2) = U \cup {i}
      /\ \A x, y : After(u, x, y) => x # y
      /\ \A y : y # i => After(u2, i, y)
      /\ \A x, y : y # i /\ After(u, x, y) => After(u2, x, y)
  BY UsedFacts
<1>2. N \in Nat /\ N # 0 BY SkConstants
<1>3. n \in Nat /\ DOMAIN st = 1..n /\ K!Range(st) = {st[k] : k \in 1..n}
      /\ (K!IsInjective(st) <=> \A k, l \in 1..n : st[k] = st[l] => k = l)
  BY ListPlaces, Zenon
<1>4. st2 \in Seq(Item) BY <1>2, FrontPlaces
<1>5. PICK m \in Nat : \E e \in [1..m -> 1..n] :
          /\ n2 = IF m + 1 < N THEN m + 1 ELSE N
          /\ K!IsInjective(st) => m + 1 >= n
          /\ Placed(st, st2, i, m, e)
  BY <1>2, FrontPlaces, Zenon
<1>6. n2 \in Nat /\ DOMAIN st2 = 1..n2 /\ K!Range(st2) = {st2[k] : k \in 1..n2}
  BY <1>4, ListPlaces
<1> HIDE DEF st2, u2, N, n, n2, U
<1>7. PICK e \in [1..m -> 1..n] :
          /\ n2 = IF m + 1 < N THEN m + 1 ELSE N
          /\ K!IsInjective(st) => m + 1 >= n
          /\ Placed(st, st2, i, m, e)
  BY <1>5
<1>8. /\ st2[1] = i
      /\ \A k \in 2..n2 : k - 1 \in 1..m /\ st2[k] = st[e[k - 1]]
      /\ \A k \in 1..m : st[e[k]] # i
      /\ \A k, l \in 1..m : k < l => e[k] < e[l]
      /\ \A p \in 1..n : st[p] # i => \E k \in 1..m : e[k] = p
  BY <1>7, Zenon DEF Placed, n, n2
<1>9. /\ n <= N /\ K!Range(st) \subseteq U
      /\ \A k, l \in 1..n : k < l => After(u, st[k], st[l])
      /\ \A y \in U \ K!Range(st) : n = N /\ \A k \in 1..n : After(u, st[k], y)
  BY <1>3, Zenon DEF Recents, N, n, U
<1>10. K!IsInjective(st)
  <2>1. \A k, l \in 1..n : st[k] = st[l] => ~(k < l) BY <1>1, <1>9, Zenon
  <2>2. \A k, l \in 1..n : k < l \/ l < k \/ k = l BY <1>3
  <2> QED BY <1>3, <2>1, <2>2, Zenon
<1>11. n = N => m + 1 >= n BY <1>7, <1>10, Zenon
<1>12. \A y \in U : (\A k \in 1..n : st[k] # y) => n = N /\ \A k \in 1..n : After(u, st[k], y)
  BY <1>3, <1>9
<1>13. /\ n2 <= N
       /\ \A k, l \in 1..n2 : k < l => After(u2, st2[k], st2[l])
       /\ \A y \in U \cup {i} : (\A k \in 1..n2 : st2[k] # y)
                    => n2 = N /\ \A k \in 1..n2 : After(u2, st2[k], y)
  <2>1. Core(N, n, m, n2, st, st2, u, u2, U, i, e)
    BY <1>1, <1>2, <1>3, <1>6, <1>7, <1>9, <1>11, <1>12, <1>8, Zenon DEF Core
  <2>2. Latest(N, n2, st2, u2, U \cup {i}) BY <2>1, RecentsCore, Zenon
  <2> QED BY <2>2, Zenon DEF Latest
<1>14. K!Range(st2) \subseteq U \cup {i}
  <2>1. ASSUME NEW k \in 1..n2 PROVE st2[k] \in U \cup {i}
    <3>1. CASE k = 1 BY <1>8, <3>1
    <3>2. CASE k # 1
      <4>1. k \in 2..n2 BY <1>6, <3>2
      <4>2. e[k - 1] \in 1..n /\ st2[k] = st[e[k - 1]] BY <1>7, <1>8, <4>1
      <4> QED BY <1>3, <1>9, <4>2
    <3> QED BY <3>1, <3>2
  <2> QED BY <1>6, <2>1
<1>15. \A y : y \notin K!Range(st2) => \A k \in 1..n2 : st2[k] # y BY <1>6
<1>16. Recents(st2, u2)
  BY <1>1, <1>6, <1>13, <1>14, <1>15, Zenon DEF Recents, N, n2
<1> QED BY <1>1, <1>4, <1>10, <1>16, Zenon DEF st2, u2

-----------------------------------------------------------------------------
(* What the palette offers *)

\* A list of items that are told apart, none of them out of the user's reach.
Offer(L) ==
    /\ L \in Seq(Item) /\ K!IsInjective(L)
    /\ K!Range(L) \cap K!Range(CatalogApis) \subseteq viewable
    /\ "admin" \in K!Range(L) => admin

LEMMA ItemsApart ==
    /\ CatalogApis \in Seq(Item) /\ K!IsInjective(CatalogApis)
    /\ K!Range(CatalogApis) \cap K!OwnItems = {}
    /\ K!Operations \cap (K!OwnItems \cup K!Range(CatalogApis)) = {}
    /\ \A q \in Long : /\ OpsOf[q] \in Seq(Item) /\ K!IsInjective(OpsOf[q])
                       /\ K!Range(OpsOf[q]) \subseteq K!Operations
<1>1. /\ CatalogApis \in Seq(K!Range(CatalogApis)) /\ K!IsInjective(CatalogApis)
      /\ K!Range(CatalogApis) \cap K!OwnItems = {}
      /\ \A q \in Long :
            /\ OpsOf[q] \in Seq(K!Range(OpsOf[q])) /\ K!IsInjective(OpsOf[q])
            /\ K!Range(OpsOf[q]) \cap (K!OwnItems \cup K!Range(CatalogApis)) = {}
  BY ShellAssumption, Zenon DEF K!ShellAssumption
<1>2. \A q \in Long : K!Range(OpsOf[q]) \subseteq K!Operations BY DEF K!Operations
<1>3. K!Operations \cap (K!OwnItems \cup K!Range(CatalogApis)) = {}
  BY <1>1 DEF K!Operations
<1>4. CatalogApis \in Seq(Item) BY <1>1, SeqMonotonic DEF Item
<1>5. ASSUME NEW q \in Long PROVE OpsOf[q] \in Seq(Item)
  <2>1. K!Range(OpsOf[q]) \subseteq Item BY <1>2 DEF Item
  <2> QED BY <1>1, <2>1, SeqMonotonic
<1> QED BY <1>1, <1>2, <1>3, <1>4, <1>5

\* Two lists of items with nothing in common, one after the other.
LEMMA JoinItems ==
    ASSUME NEW s, NEW t, s \in Seq(Item), K!IsInjective(s), t \in Seq(Item), K!IsInjective(t),
           K!Range(s) \cap K!Range(t) = {}
    PROVE  /\ s \o t \in Seq(Item) /\ K!IsInjective(s \o t)
           /\ K!Range(s \o t) = K!Range(s) \cup K!Range(t)
<1>1. /\ s \o t \in Seq(Item) /\ K!Range(s \o t) = K!Range(s) \cup K!Range(t)
      /\ K!IsInjective(s) /\ K!IsInjective(t) /\ K!Range(s) \cap K!Range(t) = {}
         => K!IsInjective(s \o t)
  BY JoinFacts
<1> QED BY <1>1, Zenon

\* The sections, the actions and the APIs; the three have nothing in common.
LEMMA PartFacts ==
    /\ K!navigateItems \in Seq(Item) /\ K!IsInjective(K!navigateItems)
    /\ K!Range(K!navigateItems) \subseteq {"catalog", "account"} \cup (IF admin THEN {"admin"} ELSE {})
    /\ K!actions \in Seq(Item) /\ K!IsInjective(K!actions)
    /\ K!Range(K!actions) \subseteq {"last", "theme", "help", "signout"}
    /\ K!apiItems \in Seq(Item) /\ K!IsInjective(K!apiItems)
    /\ K!Range(K!apiItems) = K!Range(CatalogApis) \cap viewable
<1>1. K!OwnItems \subseteq Item BY DEF Item
<1>2. /\ K!navigateItems \in Seq(Item) /\ K!IsInjective(K!navigateItems)
      /\ K!Range(K!navigateItems) \subseteq {"catalog", "account"} \cup (IF admin THEN {"admin"} ELSE {})
  <2> DEFINE a == <<"catalog">>
             b == IF admin THEN <<"admin">> ELSE <<>>
             c == <<"account">>
  <2>1. "catalog" \in Item /\ "admin" \in Item /\ "account" \in Item BY <1>1 DEF K!OwnItems
  <2>2. a \in Seq(Item) /\ K!IsInjective(a) /\ K!Range(a) = {"catalog"} BY <2>1, OneFacts, Zenon
  <2>3. c \in Seq(Item) /\ K!IsInjective(c) /\ K!Range(c) = {"account"} BY <2>1, OneFacts, Zenon
  <2>4. b \in Seq(Item) /\ K!IsInjective(b) /\ K!Range(b) = (IF admin THEN {"admin"} ELSE {})
    BY <2>1, OneFacts, NoneFacts, Zenon
  <2>5. K!navigateItems = a \o b \o c BY Zenon DEF K!navigateItems
  <2> HIDE DEF a, b, c
  <2>6. a \o b \in Seq(Item) /\ K!IsInjective(a \o b) /\ K!Range(a \o b) = K!Range(a) \cup K!Range(b)
    <3>1. K!Range(a) \cap K!Range(b) = {} BY <2>2, <2>4
    <3> QED BY <2>2, <2>4, <3>1, JoinItems, Zenon
  <2>7. /\ a \o b \o c \in Seq(Item) /\ K!IsInjective(a \o b \o c)
        /\ K!Range(a \o b \o c) = K!Range(a \o b) \cup K!Range(c)
    <3>1. K!Range(a \o b) \cap K!Range(c) = {} BY <2>2, <2>3, <2>4, <2>6
    <3> DEFINE ab == a \o b
    <3>2. ab \in Seq(Item) /\ K!IsInjective(ab) /\ K!Range(ab) \cap K!Range(c) = {}
      BY <2>6, <3>1
    <3> HIDE DEF ab
    <3>3. /\ ab \o c \in Seq(Item) /\ K!IsInjective(ab \o c)
          /\ K!Range(ab \o c) = K!Range(ab) \cup K!Range(c)
      BY <2>3, <3>2, JoinItems, Zenon
    <3> QED BY <3>3 DEF ab
  <2> QED BY <2>2, <2>3, <2>4, <2>5, <2>6, <2>7
<1>3. /\ K!actions \in Seq(Item) /\ K!IsInjective(K!actions)
      /\ K!Range(K!actions) \subseteq {"last", "theme", "help", "signout"}
  <2> DEFINE a == IF LastViewed \in viewable THEN <<"last">> ELSE <<>>
             b == <<"theme", "help", "signout">>
  <2>1. "last" \in Item /\ "theme" \in Item /\ "help" \in Item /\ "signout" \in Item
    BY <1>1 DEF K!OwnItems
  <2>2. /\ a \in Seq(Item) /\ K!IsInjective(a)
        /\ K!Range(a) = (IF LastViewed \in viewable THEN {"last"} ELSE {})
    BY <2>1, OneFacts, NoneFacts, Zenon
  <2>3. b \in Seq(Item) /\ K!IsInjective(b) /\ K!Range(b) = {"theme", "help", "signout"}
    BY <2>1 DEF K!IsInjective, K!Range
  <2>4. K!actions = a \o b BY Zenon DEF K!actions
  <2> HIDE DEF a, b
  <2>5. a \o b \in Seq(Item) /\ K!IsInjective(a \o b) /\ K!Range(a \o b) = K!Range(a) \cup K!Range(b)
    <3>1. K!Range(a) \cap K!Range(b) = {} BY <2>2, <2>3
    <3> QED BY <2>2, <2>3, <3>1, JoinItems, Zenon
  <2> QED BY <2>2, <2>3, <2>4, <2>5
<1>4. /\ K!apiItems \in Seq(Item) /\ K!IsInjective(K!apiItems)
      /\ K!Range(K!apiItems) = K!Range(CatalogApis) \cap viewable
  BY ItemsApart, KeepFacts DEF K!apiItems
<1> QED BY <1>2, <1>3, <1>4

\* Two lists with nothing in common, one after the other, are one that can be offered.
LEMMA OfferBoth ==
    ASSUME NEW L, NEW M, Offer(L), Offer(M), K!Range(L) \cap K!Range(M) = {}
    PROVE  Offer(L \o M) /\ K!Range(L \o M) = K!Range(L) \cup K!Range(M)
<1>1. L \o M \in Seq(Item) /\ K!IsInjective(L \o M) /\ K!Range(L \o M) = K!Range(L) \cup K!Range(M)
  BY JoinItems, Zenon DEF Offer
<1> QED BY <1>1 DEF Offer

\* A part of what can be offered can be.
LEMMA OfferPart ==
    ASSUME NEW L, Offer(L), NEW S, NEW n \in Nat
    PROVE  /\ Offer(K!Keep(L, S)) /\ K!Range(K!Keep(L, S)) = K!Range(L) \cap S
           /\ Offer(K!Without(L, S)) /\ K!Range(K!Without(L, S)) = K!Range(L) \ S
           /\ Offer(K!Take(L, n)) /\ K!Range(K!Take(L, n)) \subseteq K!Range(L)
<1>1. L \in Seq(Item) /\ K!IsInjective(L) BY DEF Offer
<1>2. ASSUME NEW Z
      PROVE  Offer(K!Keep(L, Z)) /\ K!Range(K!Keep(L, Z)) = K!Range(L) \cap Z
  <2>1. K!Keep(L, Z) \in Seq(Item) /\ K!Range(K!Keep(L, Z)) = K!Range(L) \cap Z
        /\ K!IsInjective(K!Keep(L, Z))
    BY <1>1, KeepFacts, Zenon
  <2> QED BY <2>1 DEF Offer
<1>3. Offer(K!Without(L, S)) /\ K!Range(K!Without(L, S)) = K!Range(L) \ S
  BY <1>2 DEF K!Without
<1>4. Offer(K!Take(L, n)) /\ K!Range(K!Take(L, n)) \subseteq K!Range(L)
  <2>1. K!Take(L, n) \in Seq(Item) /\ K!Range(K!Take(L, n)) \subseteq K!Range(L)
        /\ K!IsInjective(K!Take(L, n))
    BY <1>1, TakeFacts, Zenon
  <2> QED BY <2>1 DEF Offer
<1> QED BY <1>2, <1>3, <1>4, Zenon

LEMMA PartsOffered == Offer(K!navigateItems) /\ Offer(K!actions) /\ Offer(K!apiItems)
<1>1. K!Range(CatalogApis) \cap K!OwnItems = {} BY ItemsApart
<1>2. Offer(K!navigateItems) BY <1>1, PartFacts DEF Offer, K!OwnItems
<1>3. Offer(K!actions) BY <1>1, PartFacts DEF Offer, K!OwnItems
<1>4. Offer(K!apiItems) BY <1>1, PartFacts DEF Offer, K!OwnItems
<1> QED BY <1>2, <1>3, <1>4

\* The sections, actions, APIs and operations are apart from each other.
LEMMA PartsApart ==
    /\ K!Range(K!navigateItems) \cap K!Range(K!actions) = {}
    /\ K!Range(K!navigateItems) \cap K!Range(K!apiItems) = {}
    /\ K!Range(K!actions) \cap K!Range(K!apiItems) = {}
    /\ K!Operations \cap K!Range(K!navigateItems) = {}
    /\ K!Operations \cap K!Range(K!actions) = {}
    /\ K!Operations \cap K!Range(K!apiItems) = {}
<1>1. /\ K!Range(CatalogApis) \cap K!OwnItems = {}
      /\ K!Operations \cap (K!OwnItems \cup K!Range(CatalogApis)) = {}
  BY ItemsApart
<1> QED BY <1>1, PartFacts DEF K!OwnItems

\* What is offered without a text: the recents that are still there first, and the rest.
LEMMA OfferedWithoutText ==
    ASSUME recent \in Seq(Item), K!IsInjective(recent)
    PROVE  Offer(K!withoutText)
<1> DEFINE byId == K!Range(K!navigateItems \o K!actions \o K!apiItems)
           recents == K!Keep(recent, byId \cup K!Operations)
           a == K!Without(K!navigateItems, K!Range(recents))
           b == K!Take(K!Without(K!apiItems, K!Range(recents)), 5)
           c == K!Without(K!actions, K!Range(recents))
<1>1. K!withoutText = recents \o a \o b \o c BY Zenon DEF K!withoutText
<1>2. /\ byId = K!Range(K!navigateItems) \cup K!Range(K!actions) \cup K!Range(K!apiItems)
  <2>1. Offer(K!navigateItems \o K!actions)
        /\ K!Range(K!navigateItems \o K!actions) = K!Range(K!navigateItems) \cup K!Range(K!actions)
    BY PartsApart, PartsOffered, OfferBoth, Zenon
  <2>2. K!Range(K!navigateItems \o K!actions) \cap K!Range(K!apiItems) = {} BY <2>1, PartsApart
  <2> QED BY <2>1, <2>2, PartsOffered, OfferBoth, Zenon
<1> HIDE DEF byId
<1>3. Offer(recents)
  <2>1. recents \in Seq(Item) /\ K!IsInjective(recents)
        /\ K!Range(recents) = K!Range(recent) \cap (byId \cup K!Operations)
    BY KeepFacts, Zenon
  <2>2. K!Operations \cap (K!OwnItems \cup K!Range(CatalogApis)) = {} BY ItemsApart
  <2>3. "admin" \in K!OwnItems BY DEF K!OwnItems
  <2> HIDE DEF recents
  <2>4. K!Range(recents) \cap K!Range(CatalogApis) \subseteq viewable
    BY <1>2, <2>1, <2>2, PartsOffered DEF Offer
  <2>5. "admin" \in K!Range(recents) => admin BY <1>2, <2>1, <2>2, <2>3, PartsOffered DEF Offer
  <2> QED BY <2>1, <2>4, <2>5, Zenon DEF Offer
<1> HIDE DEF recents
<1>4. /\ Offer(a) /\ K!Range(a) = K!Range(K!navigateItems) \ K!Range(recents)
      /\ Offer(b) /\ K!Range(b) \subseteq K!Range(K!apiItems) \ K!Range(recents)
      /\ Offer(c) /\ K!Range(c) = K!Range(K!actions) \ K!Range(recents)
  <2>1. 5 \in Nat OBVIOUS
  <2> DEFINE R == K!Range(recents)
             rest == K!Without(K!apiItems, R)
  <2>2. Offer(a) /\ K!Range(a) = K!Range(K!navigateItems) \ R
        /\ Offer(c) /\ K!Range(c) = K!Range(K!actions) \ R
        /\ Offer(rest) /\ K!Range(rest) = K!Range(K!apiItems) \ R
    BY <2>1, PartsOffered, OfferPart, Zenon
  <2>3. Offer(b) /\ K!Range(b) \subseteq K!Range(rest)
    BY <2>1, <2>2, OfferPart, Zenon
  <2> HIDE DEF a, b, c, rest
  <2> QED BY <2>2, <2>3
<1> HIDE DEF a, b, c
<1>5. Offer(recents \o a) /\ K!Range(recents \o a) = K!Range(recents) \cup K!Range(a)
  <2>1. K!Range(recents) \cap K!Range(a) = {} BY <1>4
  <2> QED BY <1>3, <1>4, <2>1, OfferBoth, Zenon
<1>6. Offer(recents \o a \o b) /\ K!Range(recents \o a \o b) = K!Range(recents \o a) \cup K!Range(b)
  <2>1. K!Range(recents \o a) \cap K!Range(b) = {} BY <1>4, <1>5, PartsApart
  <2> QED BY <1>4, <1>5, <2>1, OfferBoth, Zenon
<1>7. Offer(recents \o a \o b \o c)
  <2>1. K!Range(recents \o a \o b) \cap K!Range(c) = {} BY <1>4, <1>5, <1>6, PartsApart
  <2> QED BY <1>4, <1>6, <2>1, OfferBoth, Zenon
<1> QED BY <1>1, <1>7, Zenon

\* What is offered for a text: what matches it, and the operations of the last answer.
FoundTyped == found # "" => found \in Long
LEMMA OfferedForText ==
    ASSUME FoundTyped
    PROVE  Offer(K!forText)
<1> DEFINE Filter(s) == K!Take(K!Keep(s, Matching[query]), 6)
           a == Filter(K!apiItems)
           b == IF query \in Long /\ found # "" THEN K!Take(OpsOf[found], 8) ELSE <<>>
           c == Filter(K!navigateItems)
           d == Filter(K!actions)
<1>1. K!forText = a \o b \o c \o d BY Zenon DEF K!forText
<1>2. 6 \in Nat /\ 8 \in Nat OBVIOUS
<1>3. ASSUME NEW s, Offer(s) PROVE Offer(Filter(s)) /\ K!Range(Filter(s)) \subseteq K!Range(s)
  <2>1. Offer(K!Keep(s, Matching[query])) /\ K!Range(K!Keep(s, Matching[query])) \subseteq K!Range(s)
    BY <1>2, <1>3, OfferPart
  <2> QED BY <1>2, <2>1, OfferPart
<1>4. /\ Offer(a) /\ K!Range(a) \subseteq K!Range(K!apiItems)
      /\ Offer(c) /\ K!Range(c) \subseteq K!Range(K!navigateItems)
      /\ Offer(d) /\ K!Range(d) \subseteq K!Range(K!actions)
  BY <1>3, PartsOffered, Zenon
<1>5. Offer(b) /\ K!Range(b) \subseteq K!Operations
  <2>1. K!Operations \cap (K!OwnItems \cup K!Range(CatalogApis)) = {} /\ "admin" \in K!OwnItems
    BY ItemsApart DEF K!OwnItems
  <2>2. CASE found \in Long /\ b = K!Take(OpsOf[found], 8)
    <3>1. /\ OpsOf[found] \in Seq(Item) /\ K!IsInjective(OpsOf[found])
          /\ K!Range(OpsOf[found]) \subseteq K!Operations
      BY <2>2, ItemsApart
    <3>2. Offer(OpsOf[found]) BY <2>1, <3>1 DEF Offer
    <3>3. /\ Offer(K!Take(OpsOf[found], 8))
          /\ K!Range(K!Take(OpsOf[found], 8)) \subseteq K!Range(OpsOf[found])
      BY <1>2, <3>2, OfferPart, Zenon
    <3> HIDE DEF b
    <3> QED BY <2>2, <3>1, <3>3
  <2>3. CASE b = <<>> BY <2>3, NoneFacts DEF Offer
  <2> QED BY <2>2, <2>3, Zenon DEF FoundTyped
<1> HIDE DEF a, b, c, d
<1>6. Offer(a \o b) /\ K!Range(a \o b) = K!Range(a) \cup K!Range(b)
  <2>1. K!Range(a) \cap K!Range(b) = {} BY <1>4, <1>5, PartsApart
  <2> QED BY <1>4, <1>5, <2>1, OfferBoth, Zenon
<1>7. Offer(a \o b \o c) /\ K!Range(a \o b \o c) = K!Range(a \o b) \cup K!Range(c)
  <2>1. K!Range(a \o b) \cap K!Range(c) = {} BY <1>4, <1>5, <1>6, PartsApart
  <2> QED BY <1>4, <1>6, <2>1, OfferBoth, Zenon
<1>8. Offer(a \o b \o c \o d)
  <2>1. K!Range(a \o b \o c) \cap K!Range(d) = {} BY <1>4, <1>5, <1>6, <1>7, PartsApart
  <2> QED BY <1>4, <1>7, <2>1, OfferBoth, Zenon
<1> QED BY <1>1, <1>8, Zenon

\* The palette: its recents are the last uses, those it opened with were so then, and the
\* highlight is counted from 0.
PaletteInv ==
    /\ stored \in Seq(Item) /\ uses \in Seq(Item) /\ Recents(stored, uses)
    /\ recent \in Seq(Item) /\ K!IsInjective(recent)
    /\ active \in Nat /\ FoundTyped

LEMMA Clamped == \A a, n \in Nat : n # 0 => (IF a < n THEN a + 1 ELSE n) \in 1..n
OBVIOUS

\* What the palette lists, and the one that is highlighted.
LEMMA PaletteItems ==
    ASSUME PaletteInv
    PROVE  Offer(K!items) /\ (K!items # <<>> => K!index \in DOMAIN K!items)
<1>1. Offer(K!items)
  BY OfferedWithoutText, OfferedForText, Zenon DEF PaletteInv, K!items
<1>2. active \in Nat BY Zenon DEF PaletteInv
<1>3. ASSUME K!items # <<>> PROVE K!index \in DOMAIN K!items
  <2> DEFINE L == K!items
  <2>1. L \in Seq(Item) /\ L # <<>> BY <1>1, <1>3, Zenon DEF Offer
  <2>2. K!index = IF active < Len(L) THEN active + 1 ELSE Len(L) BY Zenon DEF K!index
  <2> HIDE DEF L
  <2>3. Len(L) \in Nat /\ Len(L) # 0 /\ DOMAIN L = 1..Len(L) BY <2>1, EmptySeq, LenProperties
  <2>4. K!index \in 1..Len(L) BY <1>2, <2>2, <2>3, Clamped, Zenon
  <2> QED BY <2>3, <2>4, Zenon DEF L
<1> QED BY <1>1, <1>3, Zenon

LEMMA PaletteHolds == PaletteInv => K!PaletteSound
<1> SUFFICES ASSUME PaletteInv PROVE K!PaletteSound OBVIOUS
<1>1. K!RecentsAreUses
  BY Zenon DEF PaletteInv, K!RecentsAreUses, K!UsedAfter, Recents, After
<1> QED BY <1>1, PaletteItems, Zenon DEF K!PaletteSound, Offer

LEMMA PaletteInitial == PagesInit => PaletteInv
<1> SUFFICES ASSUME K!SkInit PROVE PaletteInv BY DEF PagesInit
<1>1. stored = <<>> /\ uses = <<>> /\ recent = <<>> /\ active = 0 /\ found = ""
  BY Zenon DEF K!SkInit
<1>2. <<>> \in Seq(Item) /\ K!Range(<<>>) = {} /\ K!IsInjective(<<>>) /\ Len(<<>>) = 0
      /\ DOMAIN <<>> = {}
  BY NoneFacts
<1>3. 0 <= RECENT_MAX /\ 0 \in Nat BY SkConstants
<1>4. Recents(<<>>, <<>>) BY <1>2, <1>3, Zenon DEF Recents
<1>5. FoundTyped BY <1>1, Zenon DEF FoundTyped
<1> QED BY <1>1, <1>2, <1>3, <1>4, <1>5, Zenon DEF PaletteInv

\* An item is used, in this tab or another.
LEMMA UseStep ==
    ASSUME PaletteInv, NEW i \in Item, stored' = Front(stored, i, RECENT_MAX),
           uses' = <<i>> \o uses
    PROVE  stored' \in Seq(Item) /\ uses' \in Seq(Item) /\ Recents(stored', uses')
BY RecentsStep, Zenon DEF PaletteInv

LEMMA RunStep ==
    ASSUME PaletteInv, NEW i \in Item, K!run(i)
    PROVE  PaletteInv'
<1>1. /\ recent' = <<>> /\ active' = 0 /\ found' = ""
      /\ \/ UNCHANGED <<stored, uses>>
         \/ stored' = Front(stored, i, RECENT_MAX) /\ uses' = <<i>> \o uses
  BY Zenon DEF K!run, K!ShowPalette, K!withEntry, Front
<1>2. stored' \in Seq(Item) /\ uses' \in Seq(Item) /\ Recents(stored', uses')
  BY <1>1, UseStep, Zenon DEF PaletteInv
<1>3. FoundTyped' BY <1>1, Zenon DEF FoundTyped
<1>4. 0 \in Nat OBVIOUS
<1> QED BY <1>1, <1>2, <1>3, <1>4, NoneFacts, Zenon DEF PaletteInv

\* The palette opens, closes, or stays.
LEMMA ShowStep ==
    ASSUME PaletteInv, UNCHANGED <<stored, uses>>,
           (\E open : K!ShowPalette(open)) \/ UNCHANGED K!paletteVars
    PROVE  PaletteInv'
<1>1. CASE \E open : K!ShowPalette(open)
  <2>1. active' = 0 /\ found' = "" /\ (recent' = stored \/ recent' = <<>>)
    BY <1>1, Zenon DEF K!ShowPalette
  <2>2. \E i \in Item : TRUE BY DEF Item, K!OwnItems
  <2>3. K!IsInjective(stored) BY <2>2, RecentsStep, Zenon DEF PaletteInv
  <2>4. FoundTyped' BY <2>1, Zenon DEF FoundTyped
  <2>5. 0 \in Nat OBVIOUS
  <2> QED BY <2>1, <2>3, <2>4, <2>5, NoneFacts, Zenon DEF PaletteInv
<1>2. CASE UNCHANGED K!paletteVars
  BY <1>2, Zenon DEF K!paletteVars, PaletteInv, FoundTyped
<1> QED BY <1>1, <1>2

LEMMA Moving ==
    \A a, n \in Nat : n # 0 =>
        LET here == (IF a < n THEN a + 1 ELSE n) - 1 IN
        /\ here + 1 \in Nat /\ (IF here = 0 THEN n - 1 ELSE here - 1) \in Nat
        /\ \A k \in Nat : (k + n) % n \in Nat
OBVIOUS

\* An arrow key leaves the highlight a number.
LEMMA MoveStep ==
    ASSUME PaletteInv, K!Arrows
    PROVE  active' \in Nat
<1>1. active \in Nat BY Zenon DEF PaletteInv
<1>2. CASE K!items = <<>>
  <2>1. active' = 0 BY <1>2, Zenon DEF K!Arrows, K!move
  <2>2. 0 \in Nat OBVIOUS
  <2> QED BY <2>1, <2>2, Zenon
<1>3. CASE K!items # <<>>
  <2> DEFINE L == K!items
             here == (IF active < Len(L) THEN active + 1 ELSE Len(L)) - 1
  <2>1. L \in Seq(Item) /\ L # <<>> BY <1>3, PaletteItems, Zenon DEF Offer
  <2>2. \/ active' = ((here + 1) + Len(L)) % Len(L)
        \/ active' = ((IF here = 0 THEN Len(L) - 1 ELSE here - 1) + Len(L)) % Len(L)
        \/ active' = (0 + Len(L)) % Len(L)
    BY <1>3, Zenon DEF K!Arrows, K!move, K!index
  <2>3. 0 \in Nat OBVIOUS
  <2>4. Len(L) \in Nat /\ Len(L) # 0 BY <2>1, EmptySeq, LenProperties
  <2>5. /\ here + 1 \in Nat /\ (IF here = 0 THEN Len(L) - 1 ELSE here - 1) \in Nat
        /\ \A k \in Nat : (k + Len(L)) % Len(L) \in Nat
    BY <1>1, <2>4, Moving, Zenon
  <2> HIDE DEF L, here
  <2> QED BY <2>2, <2>3, <2>5, Zenon
<1> QED BY <1>2, <1>3

LEMMA PalettePreserved == PaletteInv /\ [K!SkNext]_shellVars => PaletteInv'
<1> SUFFICES ASSUME PaletteInv, [K!SkNext]_shellVars PROVE PaletteInv' OBVIOUS
<1>1. /\ K!items # <<>> => K!items[K!index] \in Item
      /\ \A k \in DOMAIN K!items : K!items[k] \in Item
  <2>1. \A s \in Seq(Item) : \A k \in DOMAIN s : s[k] \in Item BY ElementOfSeq
  <2> QED BY <2>1, PaletteItems, Zenon DEF Offer
<1>2. ASSUME NEW key, NEW repeat, K!onKey(key, repeat)
      PROVE  PaletteInv'
  <2>1. UNCHANGED <<stored, uses>> BY <1>2, Zenon DEF K!onKey, K!dataVars
  <2>2. (\E open : K!ShowPalette(open)) \/ UNCHANGED K!paletteVars
    <3>1. K!runShortcut(key) => (\E open : K!ShowPalette(open)) \/ UNCHANGED K!paletteVars
      BY Zenon DEF K!runShortcut
    <3> QED BY <1>2, <3>1, Zenon DEF K!onKey
  <2> QED BY <2>1, <2>2, ShowStep
<1>3. CASE K!Enter BY <1>1, <1>3, RunStep, Zenon DEF K!Enter
<1>4. ASSUME NEW k, K!ClickItem(k)
      PROVE  PaletteInv'
  BY <1>1, <1>4, RunStep, Zenon DEF K!ClickItem
<1>5. ASSUME NEW q, K!TypeText(q)
      PROVE  PaletteInv'
  <2>1. UNCHANGED <<stored, uses, recent, found>> /\ active' = 0
    BY <1>5, Zenon DEF K!TypeText, K!dataVars
  <2>2. 0 \in Nat OBVIOUS
  <2> QED BY <2>1, <2>2, Zenon DEF PaletteInv, FoundTyped
<1>6. CASE K!Arrows
  <2>1. UNCHANGED <<stored, uses, recent, found>>
    BY <1>6, Zenon DEF K!Arrows, K!move, K!dataVars
  <2> QED BY <1>6, <2>1, MoveStep, Zenon DEF PaletteInv, FoundTyped
<1>7. CASE K!SearchAnswer
  <2>1. UNCHANGED <<stored, uses, recent, active>> /\ FoundTyped'
    BY <1>7, Zenon DEF K!SearchAnswer, K!dataVars, FoundTyped
  <2> QED BY <2>1, Zenon DEF PaletteInv
<1>8. CASE K!Escape
  <2>1. UNCHANGED <<stored, uses>> BY <1>8, Zenon DEF K!Escape, K!dataVars
  <2>2. (\E open : K!ShowPalette(open)) \/ UNCHANGED K!paletteVars
    BY <1>8, Zenon DEF K!Escape
  <2> QED BY <2>1, <2>2, ShowStep
<1>9. ASSUME NEW what, K!OpenFromBar(what)
      PROVE  PaletteInv'
  <2>1. UNCHANGED <<stored, uses>> BY <1>9, Zenon DEF K!OpenFromBar, K!dataVars
  <2>2. (\E open : K!ShowPalette(open)) \/ UNCHANGED K!paletteVars
    BY <1>9, Zenon DEF K!OpenFromBar
  <2> QED BY <2>1, <2>2, ShowStep
<1>10. ASSUME NEW i \in K!Range(CatalogApis) \cup {"catalog"}, K!OtherTab(i)
       PROVE  PaletteInv'
  <2>1. i \in Item BY DEF Item, K!OwnItems
  <2>2. /\ stored' = Front(stored, i, RECENT_MAX) /\ uses' = <<i>> \o uses
        /\ UNCHANGED K!paletteVars
    BY <1>10, Zenon DEF K!OtherTab, Front
  <2>3. stored' \in Seq(Item) /\ uses' \in Seq(Item) /\ Recents(stored', uses')
    BY <2>1, <2>2, UseStep
  <2> QED BY <2>2, <2>3, Zenon DEF PaletteInv, K!paletteVars, FoundTyped
<1>11. ASSUME UNCHANGED <<stored, uses, K!paletteVars>> PROVE PaletteInv'
  BY <1>11, Zenon DEF PaletteInv, K!paletteVars, FoundTyped
<1>12. CASE K!SequenceLate
  BY <1>11, <1>12, Zenon DEF K!SequenceLate, K!dataVars, K!paletteVars
<1>13. CASE K!Render
  BY <1>11, <1>13, Zenon DEF K!Render, K!dataVars, K!paletteVars
<1>14. ASSUME NEW f, NEW open, K!ClickPage(f, open)
       PROVE  PaletteInv'
  BY <1>11, <1>14, Zenon DEF K!ClickPage, K!dataVars, K!paletteVars
<1>15. ASSUME NEW v, NEW a, K!Refetched(v, a)
       PROVE  PaletteInv'
  BY <1>11, <1>15, Zenon DEF K!Refetched, K!dataVars, K!paletteVars
<1>16. CASE UNCHANGED shellVars
  BY <1>11, <1>16, Zenon DEF shellVars, K!skVars, K!dataVars, K!paletteVars
<1> QED
  BY <1>2, <1>3, <1>4, <1>5, <1>6, <1>7, <1>8, <1>9, <1>10, <1>12, <1>13, <1>14, <1>15, <1>16,
     Zenon DEF K!SkNext

-----------------------------------------------------------------------------
(* The document *)

DocumentTyped == schemas \in [Name -> O!Schema] /\ reading.done \in BOOLEAN

LEMMA DocumentInitial == PagesInit => DocumentTyped
<1>1. /\ \A n \in Name : Defs[n] \subseteq O!Schema
      /\ \A n \in Name : \E d \in Defs[n] : d.kind = "scalar"
  BY DocumentAssumption, Zenon DEF O!DocumentAssumption
<1>2. O!Plain \in [Name -> O!Schema] BY <1>1 DEF O!Plain
<1> SUFFICES ASSUME O!OaInit \/ O!NoDocument PROVE DocumentTyped BY DEF PagesInit
<1>3. reading = [done |-> FALSE] BY Zenon DEF O!OaInit, O!NoDocument, O!Unread
<1>4. CASE schemas = O!Plain BY <1>2, <1>3, <1>4 DEF DocumentTyped
<1>5. CASE /\ schemas \in [Name -> UNION {Defs[n] : n \in Name}]
           /\ \A n \in Name : schemas[n] \in Defs[n]
  BY <1>1, <1>3, <1>5 DEF DocumentTyped
<1> QED BY <1>4, <1>5, Zenon DEF O!OaInit, O!NoDocument

LEMMA DocumentPreserved == DocumentTyped /\ [O!OaNext]_specVars => DocumentTyped'
<1> SUFFICES ASSUME DocumentTyped, [O!OaNext]_specVars PROVE DocumentTyped' OBVIOUS
<1>1. CASE O!normalizeSpec
  <2>1. schemas' = schemas /\ reading'.done = TRUE BY <1>1, Zenon DEF O!normalizeSpec
  <2> QED BY <2>1 DEF DocumentTyped
<1>2. CASE UNCHANGED specVars BY <1>2 DEF specVars, DocumentTyped
<1> QED BY <1>1, <1>2 DEF O!OaNext

\* A set of numbers up to n has a lowest and a highest.
LEMMA Extremes ==
    ASSUME NEW n \in Nat, NEW P \in SUBSET (1..n), P # {}
    PROVE  /\ O!Lowest(P) \in P /\ \A j \in P : O!Lowest(P) <= j
           /\ O!Highest(P) \in P /\ \A j \in P : j <= O!Highest(P)
<1> DEFINE m == Cardinality(P)
<1>1. \A i \in P : i \in Nat OBVIOUS
<1>2. /\ m \in Nat /\ m # 0
      /\ \A k \in 1..m : Nth(P, k) \in P
      /\ \A k, l \in 1..m : k < l => Nth(P, k) < Nth(P, l)
      /\ \A i \in P : \E k \in 1..m : Nth(P, k) = i
  BY InOrder
<1> HIDE DEF m
<1>3. 1 \in 1..m /\ m \in 1..m BY <1>2
<1>4. \A j \in P : Nth(P, 1) <= j /\ j <= Nth(P, m)
  <2> SUFFICES ASSUME NEW k \in 1..m PROVE Nth(P, 1) <= Nth(P, k) /\ Nth(P, k) <= Nth(P, m)
    BY <1>2
  <2>1. 1 < k \/ k = 1 OBVIOUS
  <2>2. k < m \/ k = m BY <1>2
  <2>3. Nth(P, 1) \in Nat /\ Nth(P, m) \in Nat /\ Nth(P, k) \in Nat
    BY <1>1, <1>2, <1>3, Zenon
  <2>4. Nth(P, 1) < Nth(P, k) \/ k = 1 BY <1>2, <1>3, <2>1, Zenon
  <2>5. Nth(P, k) < Nth(P, m) \/ k = m BY <1>2, <1>3, <2>2, Zenon
  <2> QED BY <2>3, <2>4, <2>5
<1>5. Nth(P, 1) \in P /\ Nth(P, m) \in P BY <1>2, <1>3
<1>6. O!Lowest(P) \in P /\ \A j \in P : O!Lowest(P) <= j BY <1>4, <1>5, Zenon DEF O!Lowest
<1>7. O!Highest(P) \in P /\ \A j \in P : j <= O!Highest(P) BY <1>4, <1>5, Zenon DEF O!Highest
<1> QED BY <1>6, <1>7

LEMMA DocumentCardinality == \A S : O!Cardinality(S) = Cardinality(S)
BY Zenon DEF O!Cardinality, Cardinality

\* The items at some places of a list, each from a place of its own.
KeptAt(t, s, P, m) ==
    /\ m \in Nat /\ DOMAIN t = 1..m
    /\ \A k \in 1..m : Nth(P, k) \in P /\ t[k] = s[Nth(P, k)]
    /\ \A k, l \in 1..m : k # l => Nth(P, k) # Nth(P, l)
    /\ \A i \in P : \E k \in 1..m : Nth(P, k) = i
LEMMA PlacesKept ==
    ASSUME NEW n \in Nat, NEW s, NEW P \in SUBSET (1..n)
    PROVE  KeptAt(O!AtPlaces(s, P), s, P, Cardinality(P))
<1> DEFINE m == Cardinality(P)
<1>1. /\ m \in Nat
      /\ \A k \in 1..m : Nth(P, k) \in P
      /\ \A k, l \in 1..m : k < l => Nth(P, k) < Nth(P, l)
      /\ \A i \in P : \E k \in 1..m : Nth(P, k) = i
  BY InOrder
<1>2. O!AtPlaces(s, P) = [k \in 1..m |-> s[Nth(P, k)]]
  <2>1. O!AtPlaces(s, P) = [k \in 1..O!Cardinality(P) |->
                              s[CHOOSE i \in P : O!Cardinality({j \in P : j <= i}) = k]]
    BY DEF O!AtPlaces
  <2> QED BY <2>1, DocumentCardinality, Zenon DEF Nth, Rank, m
<1> HIDE DEF m
<1>3. \A k, l \in 1..m : k # l => k < l \/ l < k BY <1>1
<1>4. \A i \in P : ~(i < i) OBVIOUS
<1>5. \A k, l \in 1..m : k # l => Nth(P, k) # Nth(P, l) BY <1>1, <1>3, <1>4, Zenon
<1>6. DOMAIN O!AtPlaces(s, P) = 1..m /\ \A k \in 1..m : O!AtPlaces(s, P)[k] = s[Nth(P, k)]
  BY <1>2
<1> QED BY <1>1, <1>5, <1>6, Zenon DEF KeptAt, m
-----------------------------------------------------------------------------
(* Parameters *)

SameKey(p, q) == p.name = q.name /\ p.in = q.in
Sited(p) == p.in # ""

\* A list of parameters that names none twice, and has those of a set that have a place.
Merges(t, S, o) ==
    /\ DOMAIN t = 1..Len(t) /\ Len(t) \in Nat /\ \A i \in 1..Len(t) : t[i] \in O!Parameter
    /\ \A i, j \in 1..Len(t) : i # j => ~SameKey(t[i], t[j])
    /\ \A p \in S : Sited(p) => \E i \in 1..Len(t) : SameKey(t[i], p)
    /\ \A i \in 1..Len(t) : (\E p \in O!Range(o) : SameKey(t[i], p)) => t[i].own

LEMMA Merged ==
    ASSUME NEW s \in Seq(O!Parameter), NEW o \in Seq(O!Parameter), \A i \in DOMAIN o : o[i].own
    PROVE  Merges(O!mergeParameters(s, o), O!Range(s) \cup O!Range(o), o)
<1> DEFINE all == s \o o
           n == Len(all)
           Same(i) == {j \in DOMAIN all : all[j].name = all[i].name /\ all[j].in = all[i].in}
           last == [i \in DOMAIN all |-> all[O!Highest(Same(i))]]
           kept == {i \in DOMAIN all : all[i].in # "" /\ i = O!Lowest(Same(i))}
           m == Cardinality(kept)
           t == O!mergeParameters(s, o)
<1>1. /\ n \in Nat /\ DOMAIN all = 1..n /\ n = Len(s) + Len(o) /\ Len(s) \in Nat /\ Len(o) \in Nat
      /\ \A i \in 1..n : all[i] = IF i <= Len(s) THEN s[i] ELSE o[i - Len(s)]
      /\ \A i \in 1..n : all[i] \in O!Parameter
      /\ DOMAIN s = 1..Len(s) /\ DOMAIN o = 1..Len(o)
  <2>1. all \in Seq(O!Parameter) BY ConcatProperties
  <2>2. n \in Nat /\ DOMAIN all = 1..n /\ \A i \in 1..n : all[i] \in O!Parameter
    BY <2>1, LenProperties, ElementOfSeq
  <2> QED BY <2>2, ConcatProperties, LenProperties
<1>2. t = O!AtPlaces(last, kept) BY Zenon DEF O!mergeParameters
<1>3. \A i \in 1..n : \A j : j \in Same(i) <=> j \in 1..n /\ SameKey(all[j], all[i])
  BY <1>1, Zenon DEF SameKey
<1>4. \A i : i \in kept <=> i \in 1..n /\ Sited(all[i]) /\ i = O!Lowest(Same(i))
  BY <1>1, Zenon DEF Sited
<1>5. \A i \in 1..n : last[i] = all[O!Highest(Same(i))] BY <1>1
<1>6. O!Range(s) \cup O!Range(o) = {all[i] : i \in 1..n}
      /\ O!Range(o) = {o[i] : i \in 1..Len(o)}
  <2>1. \A i \in 1..Len(s) : i \in 1..n /\ all[i] = s[i] BY <1>1
  <2>2. \A i \in 1..Len(o) : i + Len(s) \in 1..n /\ all[i + Len(s)] = o[i]
    <3> SUFFICES ASSUME NEW i \in 1..Len(o)
                 PROVE  i + Len(s) \in 1..n /\ all[i + Len(s)] = o[i]
      OBVIOUS
    <3>1. i + Len(s) \in 1..n /\ ~(i + Len(s) <= Len(s)) /\ (i + Len(s)) - Len(s) = i BY <1>1
    <3> QED BY <1>1, <3>1
  <2>3. \A i \in 1..n : \/ i \in 1..Len(s) /\ all[i] = s[i]
                        \/ i - Len(s) \in 1..Len(o) /\ all[i] = o[i - Len(s)]
    BY <1>1
  <2>4. O!Range(s) = {s[i] : i \in 1..Len(s)} /\ O!Range(o) = {o[i] : i \in 1..Len(o)}
    BY <1>1 DEF O!Range
  <2> HIDE DEF all, n
  <2>5. ASSUME NEW p
        PROVE  p \in O!Range(s) \cup O!Range(o) <=> \E i \in 1..n : p = all[i]
    <3>1. p \in O!Range(s) => \E i \in 1..n : p = all[i] BY <2>1, <2>4
    <3>2. p \in O!Range(o) => \E i \in 1..n : p = all[i] BY <2>2, <2>4
    <3>3. (\E i \in 1..n : p = all[i]) => p \in O!Range(s) \cup O!Range(o) BY <2>3, <2>4
    <3> QED BY <3>1, <3>2, <3>3
  <2>6. O!Range(s) \cup O!Range(o) = {all[i] : i \in 1..n} BY <2>5, Zenon
  <2> QED BY <2>4, <2>6, Zenon
<1> HIDE DEF all, n, Same, last, kept, m, t
<1>7. \A i \in 1..n : /\ Same(i) \in SUBSET (1..n) /\ i \in Same(i)
                      /\ O!Lowest(Same(i)) \in Same(i) /\ O!Highest(Same(i)) \in Same(i)
                      /\ \A j \in Same(i) : O!Lowest(Same(i)) <= j /\ j <= O!Highest(Same(i))
  <2> SUFFICES ASSUME NEW i \in 1..n
               PROVE  /\ Same(i) \in SUBSET (1..n) /\ i \in Same(i)
                      /\ O!Lowest(Same(i)) \in Same(i) /\ O!Highest(Same(i)) \in Same(i)
                      /\ \A j \in Same(i) : O!Lowest(Same(i)) <= j /\ j <= O!Highest(Same(i))
    OBVIOUS
  <2>1. Same(i) \in SUBSET (1..n) /\ i \in Same(i) BY <1>3, Zenon DEF SameKey
  <2>2. Same(i) # {} BY <2>1
  <2> QED BY <1>1, <2>1, <2>2, Extremes, Zenon
<1>8. \A i, j \in 1..n : SameKey(all[i], all[j]) => Same(i) = Same(j)
  <2> SUFFICES ASSUME NEW i \in 1..n, NEW j \in 1..n, SameKey(all[i], all[j])
               PROVE  \A k : k \in Same(i) <=> k \in Same(j)
    BY Zenon
  <2> QED BY <1>3, Zenon DEF SameKey
<1>9. \A i \in 1..n : SameKey(last[i], all[i]) /\ last[i] \in O!Parameter
  BY <1>1, <1>3, <1>5, <1>7, Zenon
<1>10. /\ m \in Nat /\ DOMAIN t = 1..m
       /\ \A k \in 1..m : Nth(kept, k) \in kept /\ t[k] = last[Nth(kept, k)]
       /\ \A k, l \in 1..m : k # l => Nth(kept, k) # Nth(kept, l)
       /\ \A i \in kept : \E k \in 1..m : Nth(kept, k) = i
  <2>1. kept \in SUBSET (1..n) BY <1>4, Zenon
  <2>2. KeptAt(t, last, kept, m) BY <1>1, <1>2, <2>1, PlacesKept, Zenon DEF m
  <2> QED BY <2>2, Zenon DEF KeptAt
<1>11. Len(t) = m /\ \A i \in 1..m : t[i] \in O!Parameter
  <2>1. \A i \in 1..m : t[i] \in O!Parameter BY <1>4, <1>9, <1>10, Zenon
  <2>2. t = [k \in 1..m |-> t[k]] BY <1>2, <1>10, Zenon DEF O!AtPlaces
  <2>3. t \in [1..m -> O!Parameter] BY <2>1, <2>2
  <2> QED BY <1>10, <2>1, <2>3, IsASeq, LenProperties
<1>12. ASSUME NEW k \in 1..m, NEW l \in 1..m, k # l PROVE ~SameKey(t[k], t[l])
  <2>1. /\ Nth(kept, k) \in kept /\ Nth(kept, l) \in kept /\ Nth(kept, k) # Nth(kept, l)
        /\ t[k] = last[Nth(kept, k)] /\ t[l] = last[Nth(kept, l)]
    BY <1>10, <1>12, Zenon
  <2> SUFFICES ASSUME SameKey(t[k], t[l]) PROVE FALSE OBVIOUS
  <2>2. SameKey(all[Nth(kept, k)], all[Nth(kept, l)])
    BY <1>4, <1>9, <2>1, Zenon DEF SameKey
  <2>3. Nth(kept, k) \in 1..n /\ Nth(kept, l) \in 1..n BY <1>4, <2>1, Zenon
  <2>4. Same(Nth(kept, k)) = Same(Nth(kept, l)) BY <1>8, <2>2, <2>3, Zenon
  <2>5. /\ Nth(kept, k) = O!Lowest(Same(Nth(kept, k)))
        /\ Nth(kept, l) = O!Lowest(Same(Nth(kept, l)))
    BY <1>4, <2>1, Zenon
  <2> QED BY <2>1, <2>4, <2>5, Zenon
<1>13. ASSUME NEW i \in 1..n, Sited(all[i]) PROVE \E k \in 1..m : SameKey(t[k], all[i])
  <2> DEFINE f == O!Lowest(Same(i))
  <2>1. f \in 1..n /\ SameKey(all[f], all[i]) BY <1>3, <1>7, Zenon
  <2>2. Same(f) = Same(i) BY <1>8, <2>1, Zenon
  <2>3. Sited(all[f]) BY <1>13, <2>1, Zenon DEF Sited, SameKey
  <2>4. f \in kept BY <1>4, <2>1, <2>2, <2>3, Zenon
  <2>5. PICK k \in 1..m : Nth(kept, k) = f BY <1>10, <2>4, Zenon
  <2>6. t[k] = last[f] BY <1>10, <2>5, Zenon
  <2> QED BY <1>9, <2>1, <2>6, Zenon DEF SameKey
<1>14. ASSUME NEW k \in 1..m, NEW p \in O!Range(o), SameKey(t[k], p) PROVE t[k].own
  <2> DEFINE i == Nth(kept, k)
             h == O!Highest(Same(i))
  <2>1. i \in 1..n /\ t[k] = last[i] BY <1>4, <1>10, Zenon
  <2>2. t[k] = all[h] /\ h \in 1..n /\ \A j \in Same(i) : j <= h
    BY <1>3, <1>5, <1>7, <2>1, Zenon
  <2>3. PICK x \in 1..Len(o) : p = o[x] BY <1>6
  <2>4. x + Len(s) \in 1..n /\ all[x + Len(s)] = p
    <3>1. x + Len(s) \in 1..n /\ ~(x + Len(s) <= Len(s)) /\ (x + Len(s)) - Len(s) = x
      BY <1>1
    <3> QED BY <1>1, <2>3, <3>1
  <2>5. x + Len(s) \in Same(i)
    <3>1. SameKey(last[i], p) /\ SameKey(last[i], all[i]) BY <1>9, <1>14, <2>1, Zenon
    <3>2. SameKey(all[x + Len(s)], all[i]) BY <2>4, <3>1, Zenon DEF SameKey
    <3> QED BY <1>3, <2>1, <2>4, <3>2, Zenon
  <2> HIDE DEF i, h
  <2>6. x + Len(s) <= h BY <2>2, <2>5, Zenon
  <2>7. ~(h <= Len(s)) /\ h - Len(s) \in 1..Len(o) BY <1>1, <2>2, <2>6
  <2>8. all[h] = o[h - Len(s)] BY <1>1, <2>2, <2>7
  <2>9. h - Len(s) \in DOMAIN o BY <1>1, <2>7
  <2> QED BY <2>2, <2>8, <2>9
<1>15. \A p \in O!Range(s) \cup O!Range(o) : Sited(p) => \E k \in 1..m : SameKey(t[k], p)
  BY <1>6, <1>13
<1>16. Merges(t, O!Range(s) \cup O!Range(o), o)
  BY <1>10, <1>11, <1>12, <1>14, <1>15, Zenon DEF Merges
<1> QED BY <1>16, Zenon DEF t

LEMMA PlacesHaveNames ==
    ASSUME NEW p
    PROVE  /\ p.in \in O!LOCATIONS => Sited(p)
           /\ p.in = "body" \/ p.in = "formData" => Sited(p)
BY Zenon DEF Sited, O!LOCATIONS

LEMMA ParameterMade ==
    ASSUME NEW p \in O!Parameter
    PROVE  /\ SameKey(O!toParameter(p), p)
           /\ O!toParameter(p).own = p.own
           /\ O!toParameter(p).in = "path" => O!toParameter(p).required
<1> DEFINE N == STRING
<1>1. p \in [name : N, in : N, required : BOOLEAN, own : BOOLEAN] BY Zenon DEF O!Parameter
<1> HIDE DEF N
<1>2. O!toParameter(p) = [p EXCEPT !.required = p.required \/ p.in = "path"]
  BY Zenon DEF O!toParameter
<1>3. /\ O!toParameter(p).name = p.name /\ O!toParameter(p).in = p.in
      /\ O!toParameter(p).own = p.own
  BY <1>1, <1>2
<1>4. O!toParameter(p).required = (p.required \/ p.in = "path") BY <1>1, <1>2
<1> QED BY <1>3, <1>4, Zenon DEF SameKey

\* The parameters and the body that were read are made from those of the document.
ParametersKnown ==
    /\ shared \in Seq(O!Parameter) /\ own \in Seq(O!Parameter) /\ swagger2 \in BOOLEAN
    /\ \A i \in DOMAIN own : own[i].own
Asked(all) == O!AtPlaces(all, {i \in DOMAIN all : all[i].in \in O!LOCATIONS})
ParametersRead ==
    reading.done =>
        LET all == O!mergeParameters(shared, own) IN
        /\ reading.parameters = [i \in DOMAIN Asked(all) |-> O!toParameter(Asked(all)[i])]
        /\ reading.body = IF swagger2 THEN O!swagger2Body(all) ELSE O!NoBody

LEMMA BodyFound ==
    ASSUME NEW all, NEW n \in Nat, DOMAIN all = 1..n, NEW i \in 1..n
    PROVE  /\ all[i].in = "body" => O!swagger2Body(all).body
           /\ all[i].in = "formData" =>
                O!swagger2Body(all).body \/ all[i].name \in O!swagger2Body(all).fields
<1> DEFINE body == {j \in DOMAIN all : all[j].in = "body"}
           fields == {j \in DOMAIN all : all[j].in = "formData"}
<1>1. O!swagger2Body(all) =
        IF body # {} THEN [fields |-> {}, body |-> TRUE, required |-> all[O!Lowest(body)].required]
        ELSE [fields |-> {all[j].name : j \in fields}, body |-> FALSE,
              required |-> \E j \in fields : all[j].required]
  BY Zenon DEF O!swagger2Body
<1>2. all[i].in = "body" => body # {} BY Zenon
<1>3. all[i].in = "formData" => i \in fields BY Zenon
<1> HIDE DEF body, fields
<1>4. body # {} => O!swagger2Body(all).body BY <1>1
<1>5. body = {} => O!swagger2Body(all).fields = {all[j].name : j \in fields} BY <1>1
<1> QED BY <1>2, <1>3, <1>4, <1>5, Zenon

LEMMA AskedOnce == ParametersKnown /\ ParametersRead => O!ParametersOnce
<1> DEFINE S == O!Range(shared) \cup O!Range(own)
           t == O!mergeParameters(shared, own)
           n == Len(t)
           P == {i \in DOMAIN t : t[i].in \in O!LOCATIONS}
           m == Cardinality(P)
           asked == Asked(t)
           q == reading.parameters
<1> SUFFICES ASSUME ParametersKnown, ParametersRead, reading.done PROVE O!ParametersOnce
  BY Zenon DEF O!ParametersOnce
<1>1. Merges(t, S, own) BY Merged, Zenon DEF ParametersKnown
<1>2. /\ DOMAIN t = 1..n /\ n \in Nat /\ \A i \in 1..n : t[i] \in O!Parameter
      /\ \A i, j \in 1..n : i # j => ~SameKey(t[i], t[j])
      /\ \A p \in S : Sited(p) => \E i \in 1..n : SameKey(t[i], p)
      /\ \A i \in 1..n : (\E p \in O!Range(own) : SameKey(t[i], p)) => t[i].own
  BY <1>1, Zenon DEF Merges
<1>3. /\ q = [i \in DOMAIN asked |-> O!toParameter(asked[i])]
      /\ reading.body = IF swagger2 THEN O!swagger2Body(t) ELSE O!NoBody
  BY Zenon DEF ParametersRead
<1>4. asked = O!AtPlaces(t, P) BY Zenon DEF Asked
<1>5. P \in SUBSET (1..n) /\ \A i \in 1..n : i \in P <=> t[i].in \in O!LOCATIONS
  BY <1>2, Zenon
<1> HIDE DEF S, t, n, P, m, asked, q
<1>6. /\ m \in Nat /\ DOMAIN asked = 1..m
      /\ \A k \in 1..m : Nth(P, k) \in P /\ asked[k] = t[Nth(P, k)]
      /\ \A k, l \in 1..m : k # l => Nth(P, k) # Nth(P, l)
      /\ \A i \in P : \E k \in 1..m : Nth(P, k) = i
  <2>1. KeptAt(asked, t, P, m) BY <1>2, <1>4, <1>5, PlacesKept, Zenon DEF m
  <2> QED BY <2>1, Zenon DEF KeptAt
<1>7. DOMAIN q = 1..m /\ \A k \in 1..m : q[k] = O!toParameter(t[Nth(P, k)])
  BY <1>3, <1>6
<1>8. \A k \in 1..m : /\ Nth(P, k) \in 1..n /\ Nth(P, k) \in P
                      /\ SameKey(q[k], t[Nth(P, k)]) /\ q[k].own = t[Nth(P, k)].own
                      /\ q[k].in = "path" => q[k].required
  <2> SUFFICES ASSUME NEW k \in 1..m
               PROVE  /\ Nth(P, k) \in 1..n /\ Nth(P, k) \in P
                      /\ SameKey(q[k], t[Nth(P, k)]) /\ q[k].own = t[Nth(P, k)].own
                      /\ q[k].in = "path" => q[k].required
    OBVIOUS
  <2>1. Nth(P, k) \in 1..n /\ Nth(P, k) \in P /\ t[Nth(P, k)] \in O!Parameter
    BY <1>2, <1>5, <1>6, Zenon
  <2>2. q[k] = O!toParameter(t[Nth(P, k)]) BY <1>7
  <2> QED BY <2>1, <2>2, ParameterMade
<1>9. ASSUME NEW i \in DOMAIN q, NEW j \in DOMAIN q, i # j
      PROVE  q[i].name # q[j].name \/ q[i].in # q[j].in
  <2>1. i \in 1..m /\ j \in 1..m BY <1>7, Zenon
  <2>2. ~SameKey(t[Nth(P, i)], t[Nth(P, j)]) BY <1>2, <1>6, <1>8, <1>9, <2>1, Zenon
  <2> QED BY <1>8, <2>1, <2>2, Zenon DEF SameKey
<1>10. ASSUME NEW p \in S, p.in \in O!LOCATIONS
       PROVE  \E r \in O!Range(q) : r.name = p.name /\ r.in = p.in
  <2>1. PICK i \in 1..n : SameKey(t[i], p) BY <1>2, <1>10, PlacesHaveNames, Zenon
  <2>2. i \in P BY <1>5, <1>10, <2>1, Zenon DEF SameKey
  <2>3. PICK k \in 1..m : Nth(P, k) = i BY <1>6, <2>2, Zenon
  <2>4. SameKey(q[k], p) BY <1>8, <2>1, <2>3, Zenon DEF SameKey
  <2>5. q[k] \in O!Range(q) BY <1>7 DEF O!Range
  <2> QED BY <2>4, <2>5, Zenon DEF SameKey
<1>11. ASSUME NEW p \in S, swagger2
       PROVE  /\ p.in = "body" => reading.body.body
              /\ p.in = "formData" => reading.body.body \/ p.name \in reading.body.fields
  <2> SUFFICES ASSUME p.in = "body" \/ p.in = "formData"
               PROVE  /\ p.in = "body" => reading.body.body
                      /\ p.in = "formData" => reading.body.body \/ p.name \in reading.body.fields
    OBVIOUS
  <2>1. PICK i \in 1..n : SameKey(t[i], p) BY <1>2, PlacesHaveNames, Zenon
  <2>2. /\ t[i].in = "body" => O!swagger2Body(t).body
        /\ t[i].in = "formData" => O!swagger2Body(t).body \/ t[i].name \in O!swagger2Body(t).fields
    BY <1>2, BodyFound, Zenon
  <2>3. reading.body = O!swagger2Body(t) BY <1>3, <1>11
  <2> QED BY <2>1, <2>2, <2>3, Zenon DEF SameKey
<1>12. ASSUME NEW r \in O!Range(q)
       PROVE  /\ r.in = "path" => r.required
              /\ (\E p \in O!Range(own) : p.name = r.name /\ p.in = r.in) => r.own
  <2>1. PICK k \in 1..m : r = q[k] BY <1>7 DEF O!Range
  <2>2. \A p \in O!Range(own) : SameKey(r, p) => SameKey(t[Nth(P, k)], p)
    BY <1>8, <2>1, Zenon DEF SameKey
  <2>3. (\E p \in O!Range(own) : SameKey(r, p)) => r.own BY <1>2, <1>8, <2>1, <2>2, Zenon
  <2> QED BY <1>8, <2>1, <2>3, Zenon DEF SameKey
<1> QED BY <1>9, <1>10, <1>11, <1>12, Zenon DEF O!ParametersOnce, S, q

-----------------------------------------------------------------------------
(* Operations *)

OperationsKnown ==
    /\ IsFiniteSet(operations) /\ operations \subseteq O!OperationItem
    /\ \A o \in operations : o.tag \in {""} \cup O!Range(TagOrder \o OtherTags)
    /\ \A o, p \in operations : o.path = p.path /\ o.method = p.method => o = p
OperationsRead ==
    reading.done =>
        LET ops == O!Sorted(operations) IN
        /\ reading.operations = ops /\ reading.keys = O!assignKeys(ops)
        /\ reading.first = O!firstOperation(ops)

\* They are listed once each.
Listed(all, S, n) ==
    /\ n \in Nat /\ n = Cardinality(S) /\ DOMAIN all = 1..n
    /\ \A i \in 1..n : all[i] \in S
    /\ \A i, j \in 1..n : all[i] = all[j] => i = j
    /\ \A o \in S : \E i \in 1..n : all[i] = o

LEMMA SortedLists ==
    OperationsKnown => Listed(O!Sorted(operations), operations, Cardinality(operations))
<1> SUFFICES ASSUME OperationsKnown
             PROVE  Listed(O!Sorted(operations), operations, Cardinality(operations))
  OBVIOUS
<1> DEFINE S == operations
           R == {x \in S \X S : ~O!Before(x[2], x[1])}
           all == O!Sorted(S)
           n == Cardinality(S)
           Chosen(k) == CHOOSE o \in S : Placing(S, R, o) = k
<1>1. IsFiniteSet(S) /\ \A o, p \in S : o.path = p.path /\ o.method = p.method => o = p
  BY Zenon DEF OperationsKnown
<1>2. \A o \in S : o.path \in Nat /\ o.method \in Nat
  <2>1. S \subseteq O!OperationItem BY Zenon DEF OperationsKnown
  <2> QED BY <2>1 DEF O!OperationItem
<1>3. \A i, j \in S : <<i, j>> \in R <=> ~O!Before(j, i) BY SMT
<1>4. \A i, j \in S : <<i, j>> \in R <=>
          ~(j.path < i.path \/ (j.path = i.path /\ j.method < i.method))
  BY <1>3, Zenon DEF O!Before
<1>5. \A o \in S : Placing(S, R, o) = Cardinality({p \in S : ~O!Before(o, p)})
  <2> SUFFICES ASSUME NEW o \in S
               PROVE  {j \in S : <<j, o>> \in R} = {p \in S : ~O!Before(o, p)}
    BY Zenon DEF Placing
  <2> QED BY <1>3
<1> HIDE DEF R, S
<1>6. Ordered(S, R)
  <2>1. \A i, j \in S : <<i, j>> \in R \/ <<j, i>> \in R
    <3> SUFFICES ASSUME NEW i \in S, NEW j \in S PROVE <<i, j>> \in R \/ <<j, i>> \in R
      OBVIOUS
    <3>1. i.path \in Nat /\ i.method \in Nat /\ j.path \in Nat /\ j.method \in Nat BY <1>2
    <3>2. \/ ~(j.path < i.path \/ (j.path = i.path /\ j.method < i.method))
          \/ ~(i.path < j.path \/ (i.path = j.path /\ i.method < j.method))
      BY <3>1
    <3> QED BY <1>4, <3>2, Zenon
  <2>2. \A i, j \in S : <<i, j>> \in R /\ <<j, i>> \in R => i = j
    <3> SUFFICES ASSUME NEW i \in S, NEW j \in S, <<i, j>> \in R, <<j, i>> \in R PROVE i = j
      OBVIOUS
    <3>1. i.path = j.path /\ i.method = j.method BY <1>2, <1>4
    <3> QED BY <1>1, <3>1
  <2>3. \A i, j, k \in S : <<i, j>> \in R /\ <<j, k>> \in R => <<i, k>> \in R BY <1>2, <1>4
  <2> QED BY <2>1, <2>2, <2>3, Zenon DEF Ordered
<1>7. Numbered(S, R) BY <1>1, <1>6, Placings, Zenon
<1>8. all = [k \in 1..n |-> Chosen(k)]
  <2>1. all = [k \in 1..Cardinality(S) |->
                 CHOOSE o \in S : Cardinality({p \in S : ~O!Before(o, p)}) = k]
    <3>1. all = [k \in 1..O!Cardinality(S) |->
                   CHOOSE o \in S : O!Cardinality({p \in S : ~O!Before(o, p)}) = k]
      BY Zenon DEF O!Sorted
    <3> QED BY <3>1, DocumentCardinality, Zenon
  <2>2. \A k : Chosen(k) = CHOOSE o \in S : Cardinality({p \in S : ~O!Before(o, p)}) = k BY <1>5
  <2> HIDE DEF Chosen
  <2> QED BY <2>1, <2>2
<1> HIDE DEF n, all
<1>9. /\ n \in Nat
      /\ \A i \in S : Placing(S, R, i) \in 1..n
      /\ \A i, j \in S : Placing(S, R, i) = Placing(S, R, j) => i = j
      /\ \A k \in 1..n : \E i \in S : Placing(S, R, i) = k
  BY <1>7, Zenon DEF Numbered, n
<1>10. \A k \in 1..n : Chosen(k) \in S /\ Placing(S, R, Chosen(k)) = k BY <1>9, Zenon
<1>11. \A o \in S : Chosen(Placing(S, R, o)) = o BY <1>9, <1>10, Zenon
<1> HIDE DEF Chosen
<1>12. DOMAIN all = 1..n /\ \A k \in 1..n : all[k] = Chosen(k) BY <1>8
<1>13. \A i, j \in 1..n : all[i] = all[j] => i = j BY <1>10, <1>12, Zenon
<1>14. \A o \in S : \E i \in 1..n : all[i] = o BY <1>9, <1>11, <1>12, Zenon
<1>15. n = Cardinality(S) BY DEF n
<1>16. Listed(all, S, n) BY <1>9, <1>10, <1>12, <1>13, <1>14, <1>15, Zenon DEF Listed
<1> QED BY <1>16, Zenon DEF S, n, all

\* An operation has a place among the groups of the tree.
LEMMA TagRanks ==
    ASSUME OperationsKnown, NEW o \in operations
    PROVE  O!TagRank(o) \in 1..(Len(TagOrder \o OtherTags) + 1)
<1> DEFINE tags == TagOrder \o OtherTags
           P == {i \in DOMAIN tags : tags[i] = o.tag}
<1>1. tags \in Seq(STRING)
  BY DocumentAssumption, ConcatProperties, Zenon DEF O!DocumentAssumption
<1>2. Len(tags) \in Nat /\ DOMAIN tags = 1..Len(tags) BY <1>1, LenProperties
<1>3. CASE o.tag = ""
  <2>1. O!TagRank(o) = Len(tags) + 1 BY <1>3, Zenon DEF O!TagRank
  <2> HIDE DEF tags
  <2>2. Len(tags) + 1 \in 1..(Len(tags) + 1) BY <1>2
  <2> QED BY <2>1, <2>2, Zenon DEF tags
<1>4. CASE o.tag # ""
  <2>1. O!TagRank(o) = O!Lowest(P) BY <1>4, Zenon DEF O!TagRank
  <2>2. o.tag \in O!Range(tags) BY <1>4, Zenon DEF OperationsKnown
  <2>3. O!Range(tags) = {tags[i] : i \in DOMAIN tags} BY Zenon DEF O!Range
  <2>4. P # {} /\ P \in SUBSET (1..Len(tags)) BY <1>2, <2>2, <2>3, Zenon
  <2> HIDE DEF P, tags
  <2>5. O!Lowest(P) \in 1..Len(tags) BY <1>2, <2>4, Extremes, Zenon
  <2>6. \A i \in 1..Len(tags) : i \in 1..(Len(tags) + 1) BY <1>2
  <2>7. O!TagRank(o) \in 1..(Len(tags) + 1) BY <2>1, <2>5, <2>6, Zenon
  <2> QED BY <2>7, Zenon DEF tags
<1> QED BY <1>3, <1>4, Zenon

\* No two operations have the same key.
LEMMA KeysDiffer ==
    ASSUME NEW all, NEW n \in Nat, DOMAIN all = 1..n,
           \A i, j \in 1..n : all[i].path = all[j].path /\ all[i].method = all[j].method => i = j,
           NEW i \in 1..n, NEW j \in 1..n, i # j
    PROVE  O!assignKeys(all)[i] # O!assignKeys(all)[j]
<1> DEFINE Same(k) == {l \in 1..n : all[l].id = all[k].id}
           Named(k) == all[k].id # "" /\ O!Cardinality(Same(k)) = 1
           keys == O!assignKeys(all)
<1>1. keys = [k \in 1..n |-> IF Named(k) THEN <<all[k].id>> ELSE <<all[k].method, all[k].path>>]
  BY Zenon DEF O!assignKeys
<1>2. \A k \in 1..n : k \in Same(k) OBVIOUS
<1>3. \A k : IsFiniteSet(Same(k))
  <2> SUFFICES ASSUME NEW k PROVE IsFiniteSet(Same(k)) OBVIOUS
  <2>1. IsFiniteSet(1..n) /\ Same(k) \in SUBSET (1..n) BY FS_Interval
  <2> QED BY <2>1, FS_Subset, Zenon
<1>4. \A k \in 1..n : Named(k) => \E y : Same(k) = {y}
  <2> SUFFICES ASSUME NEW k \in 1..n, Named(k) PROVE \E y : Same(k) = {y} OBVIOUS
  <2>1. Cardinality(Same(k)) = 1 BY DocumentCardinality, Zenon
  <2>2. IsFiniteSet(Same(k)) BY <1>3, Zenon
  <2> HIDE DEF Same
  <2> QED BY <2>1, <2>2, FS_Singleton, Zenon
<1>5. Named(i) => all[i].id # all[j].id
  <2> SUFFICES ASSUME Named(i), all[i].id = all[j].id PROVE FALSE OBVIOUS
  <2>1. i \in Same(i) /\ j \in Same(i) BY Zenon
  <2> QED BY <1>4, <2>1, Zenon
<1> HIDE DEF Named, keys
<1>6. /\ keys[i] = IF Named(i) THEN <<all[i].id>> ELSE <<all[i].method, all[i].path>>
      /\ keys[j] = IF Named(j) THEN <<all[j].id>> ELSE <<all[j].method, all[j].path>>
  BY <1>1
<1>7. ~(all[i].path = all[j].path /\ all[i].method = all[j].method) BY Zenon
<1>8. keys[i] # keys[j] BY <1>5, <1>6, <1>7
<1> QED BY <1>8, Zenon DEF keys

\* The one an API opens on is among those not deprecated, if there are any, and none of them
\* is in an earlier group.
LEMMA FirstFound ==
    ASSUME NEW all, NEW n \in Nat, DOMAIN all = 1..n, NEW L \in Nat,
           \A i \in 1..n : O!TagRank(all[i]) \in 1..L
    PROVE  LET f == O!firstOperation(all) IN
           /\ n = 0 => f = 0
           /\ n # 0 => f \in 1..n
           /\ n # 0 => \A j \in 1..n : all[f].deprecated => all[j].deprecated
           /\ n # 0 => \A j \in 1..n :
                 O!TagRank(all[j]) < O!TagRank(all[f]) => all[j].deprecated
<1> DEFINE live == {i \in DOMAIN all : ~all[i].deprecated}
           among == IF live = {} THEN DOMAIN all ELSE live
           Rk(i) == O!TagRank(all[i])
           f == O!firstOperation(all)
<1>1. f = IF among = {} THEN 0
          ELSE CHOOSE i \in among : \A j \in among : Rk(i) < Rk(j) \/ (Rk(i) = Rk(j) /\ i <= j)
  BY Zenon DEF O!firstOperation
<1>2. /\ among \in SUBSET (1..n) /\ (among = {} <=> n = 0)
      /\ \A j \in 1..n : j \in among \/ all[j].deprecated
      /\ \A i \in among : all[i].deprecated => live = {}
  <2>1. n # 0 => 1 \in 1..n OBVIOUS
  <2>2. n = 0 => 1..n = {} OBVIOUS
  <2> QED BY <2>1, <2>2
<1>3. \A i \in 1..n : i \in Nat OBVIOUS
<1>4. \A j \in 1..n : j \notin live => all[j].deprecated OBVIOUS
<1> HIDE DEF live, among, Rk, f
<1>5. \A i \in 1..n : Rk(i) \in 1..L BY DEF Rk
<1>6. ASSUME n # 0
      PROVE  f \in among /\ \A j \in among : Rk(f) < Rk(j) \/ (Rk(f) = Rk(j) /\ f <= j)
  <2> DEFINE ranks == {Rk(i) : i \in among}
             r == O!Lowest(ranks)
             those == {i \in among : Rk(i) = r}
             g == O!Lowest(those)
  <2>1. ranks \in SUBSET (1..L) /\ ranks # {} BY <1>2, <1>5, <1>6
  <2> HIDE DEF r
  <2>2. r \in ranks /\ \A k \in ranks : r <= k BY <2>1, Extremes, Zenon DEF r
  <2>3. those \in SUBSET (1..n) /\ those # {} BY <1>2, <2>2
  <2> HIDE DEF g
  <2>4. g \in those /\ \A k \in those : g <= k BY <2>3, Extremes, Zenon DEF g
  <2>5. \A j \in among : Rk(g) < Rk(j) \/ (Rk(g) = Rk(j) /\ g <= j)
    <3> SUFFICES ASSUME NEW j \in among PROVE Rk(g) < Rk(j) \/ (Rk(g) = Rk(j) /\ g <= j)
      OBVIOUS
    <3>1. Rk(g) = r /\ Rk(j) \in ranks BY <2>4
    <3>2. \A k \in ranks : k \in Nat BY <2>1
    <3>3. r <= Rk(j) /\ r \in Nat /\ Rk(j) \in Nat BY <2>2, <3>1, <3>2, Zenon
    <3>4. Rk(j) = r => g <= j BY <2>4
    <3> QED BY <3>1, <3>3, <3>4
  <2>6. g \in among BY <2>4
  <2>7. f = CHOOSE i \in among : \A j \in among : Rk(i) < Rk(j) \/ (Rk(i) = Rk(j) /\ i <= j)
    BY <1>1, <1>2, <1>6, Zenon
  <2> QED BY <2>5, <2>6, <2>7, Zenon
<1>7. n = 0 => f = 0 BY <1>1, <1>2, Zenon
<1>8. ASSUME n # 0, NEW j \in 1..n
      PROVE  /\ all[f].deprecated => all[j].deprecated
             /\ Rk(j) < Rk(f) => all[j].deprecated
  <2>1. all[f].deprecated => all[j].deprecated
    <3>1. live = {} \/ ~all[f].deprecated BY <1>2, <1>6, <1>8, Zenon
    <3> QED BY <1>4, <1>8, <3>1, Zenon
  <2>2. Rk(j) < Rk(f) => j \notin among
    <3>1. f \in 1..n BY <1>2, <1>6, <1>8, Zenon
    <3>2. Rk(f) \in Nat /\ Rk(j) \in Nat BY <1>5, <1>8, <3>1
    <3>3. j \in among => Rk(f) < Rk(j) \/ Rk(f) = Rk(j) BY <1>6, <1>8, Zenon
    <3> QED BY <3>2, <3>3
  <2> QED BY <1>2, <1>8, <2>1, <2>2, Zenon
<1>9. n # 0 => f \in 1..n BY <1>2, <1>6, Zenon
<1> QED BY <1>7, <1>8, <1>9, Zenon DEF f, Rk

LEMMA OperationsFound == OperationsKnown /\ OperationsRead => O!KeysFind
<1> DEFINE S == operations
           all == O!Sorted(S)
           n == Cardinality(S)
           f == O!firstOperation(all)
           keys == O!assignKeys(all)
<1> SUFFICES ASSUME OperationsKnown, OperationsRead, reading.done PROVE O!KeysFind
  BY Zenon DEF O!KeysFind
<1>1. reading.operations = all /\ reading.keys = keys /\ reading.first = f
  BY Zenon DEF OperationsRead
<1>2. Listed(all, S, n) BY SortedLists, Zenon
<1>3. \A o \in S : O!TagRank(o) \in 1..(Len(TagOrder \o OtherTags) + 1) BY TagRanks, Zenon
<1>4. Len(TagOrder \o OtherTags) + 1 \in Nat
  <2>1. TagOrder \o OtherTags \in Seq(STRING)
    BY DocumentAssumption, ConcatProperties, Zenon DEF O!DocumentAssumption
  <2>2. Len(TagOrder \o OtherTags) \in Nat BY <2>1, LenProperties
  <2> QED BY <2>2
<1>5. \A o, p \in S : o.path = p.path /\ o.method = p.method => o = p
  BY Zenon DEF OperationsKnown
<1> HIDE DEF S, all, n, f, keys
<1>6. /\ n \in Nat /\ n = Cardinality(S) /\ DOMAIN all = 1..n
      /\ \A i \in 1..n : all[i] \in S
      /\ \A i, j \in 1..n : all[i] = all[j] => i = j
      /\ \A o \in S : \E i \in 1..n : all[i] = o
  BY <1>2, Zenon DEF Listed
<1>7. \A i, j \in 1..n : all[i].path = all[j].path /\ all[i].method = all[j].method => i = j
  <2> SUFFICES ASSUME NEW i \in 1..n, NEW j \in 1..n,
                      all[i].path = all[j].path, all[i].method = all[j].method
               PROVE  i = j
    OBVIOUS
  <2>1. all[i] \in S /\ all[j] \in S BY <1>6, Zenon
  <2>2. all[i] = all[j] BY <1>5, <2>1, Zenon
  <2> QED BY <1>6, <2>2, Zenon
<1>8. ASSUME NEW i \in DOMAIN all, NEW j \in DOMAIN all, i # j PROVE keys[i] # keys[j]
  <2>1. i \in 1..n /\ j \in 1..n BY <1>6, Zenon
  <2>2. O!assignKeys(all)[i] # O!assignKeys(all)[j] BY <1>6, <1>7, <1>8, <2>1, KeysDiffer
  <2> QED BY <2>2, Zenon DEF keys
<1>9. O!Range(all) = S BY <1>6 DEF O!Range
<1>10. Len(all) = O!Cardinality(S)
  <2>1. all = [k \in 1..n |-> all[k]]
    <3>1. O!Cardinality(S) = n BY <1>6, DocumentCardinality, Zenon
    <3> QED BY <1>6, <3>1, Zenon DEF all, O!Sorted
  <2>2. all \in [1..n -> S] BY <1>6, <2>1
  <2>3. Len(all) = n BY <1>6, <2>2, IsASeq, LenProperties
  <2> QED BY <1>6, <2>3, DocumentCardinality, Zenon
<1>11. \A i \in 1..n : O!TagRank(all[i]) \in 1..(Len(TagOrder \o OtherTags) + 1)
  BY <1>3, <1>6, Zenon
<1>12. /\ n = 0 => f = 0
       /\ n # 0 => f \in 1..n
       /\ n # 0 => \A j \in 1..n : all[f].deprecated => all[j].deprecated
       /\ n # 0 => \A j \in 1..n :
             O!TagRank(all[j]) < O!TagRank(all[f]) => all[j].deprecated
  BY <1>4, <1>6, <1>11, FirstFound, Zenon DEF f
<1>13. n = 0 <=> S = {}
  <2>1. IsFiniteSet(S) BY Zenon DEF OperationsKnown, S
  <2> QED BY <1>6, <2>1, FS_EmptySet, Zenon
<1>14. f # 0 <=> n # 0
  <2>1. \A i \in 1..n : i # 0 BY <1>6
  <2> QED BY <1>12, <2>1, Zenon
<1>15. ASSUME f # 0, NEW o \in S
       PROVE  /\ all[f].deprecated => o.deprecated
              /\ O!TagRank(o) < O!TagRank(all[f]) => o.deprecated
  <2>1. PICK j \in 1..n : all[j] = o BY <1>6, Zenon
  <2> QED BY <1>12, <1>14, <1>15, <2>1, Zenon
<1>16. (f = 0) = (S = {}) BY <1>13, <1>14
<1>17. /\ O!Range(all) = operations /\ Len(all) = O!Cardinality(operations)
       /\ (f = 0) = (operations = {})
  BY <1>9, <1>10, <1>16, Zenon DEF S
<1>18. f # 0 => /\ all[f].deprecated => \A o \in operations : o.deprecated
                /\ \A o \in operations : O!TagRank(o) < O!TagRank(all[f]) => o.deprecated
  BY <1>15, Zenon DEF S
<1> QED BY <1>1, <1>8, <1>17, <1>18, Zenon DEF O!KeysFind

-----------------------------------------------------------------------------
(* Recursive definitions *)

\* Of a family of subsets of a finite set, one has none of the others above it.
LEMMA Maximal ==
    ASSUME NEW X, IsFiniteSet(X), NEW Family \in SUBSET (SUBSET X), Family # {}
    PROVE  \E S \in Family : \A A \in Family : S \subseteq A => S = A
<1> DEFINE n == Cardinality(X) + 1
           Size(A) == Cardinality(A) + 1
           P == {Size(A) : A \in Family}
<1>1. n \in Nat BY FS_CardinalityType
<1>2. \A A \in Family : IsFiniteSet(A) /\ Cardinality(A) \in Nat /\ Cardinality(A) <= Cardinality(X)
  BY FS_Subset, FS_CardinalityType
<1>3. \A A \in Family : Size(A) \in 1..n BY <1>2, FS_CardinalityType
<1>4. P \in SUBSET (1..n) /\ P # {} BY <1>3
<1> HIDE DEF n
<1>5. O!Highest(P) \in P /\ \A j \in P : j <= O!Highest(P) BY <1>1, <1>4, Extremes
<1>6. PICK S \in Family : \A A \in Family : Size(A) <= Size(S) BY <1>5
<1>7. ASSUME NEW A \in Family, S \subseteq A PROVE S = A
  <2>1. Cardinality(S) <= Cardinality(A) /\ (Cardinality(A) = Cardinality(S) => A = S)
    BY <1>2, <1>7, FS_Subset
  <2> QED BY <1>2, <1>6, <2>1
<1> QED BY <1>7

\* What holds of no element, and of more elements whenever what they need is among those it
\* holds of, holds of all: no set is such that each of its elements needs one of them.
Founded(X, Needs) ==
    /\ IsFiniteSet(X) /\ Needs \in [X -> SUBSET X]
    /\ \A S \in SUBSET X : S # {} => \E m \in S : Needs[m] \cap S = {}
Spreads(X, Needs, Done) ==
    /\ {} \in Done
    /\ \A S \in Done, S2 \in SUBSET X :
          S \subseteq S2 /\ (\A m \in S2 : Needs[m] \subseteq S) => S2 \in Done
LEMMA Reached ==
    ASSUME NEW X, NEW Needs, NEW Done, Founded(X, Needs), Spreads(X, Needs, Done)
    PROVE  X \in Done
<1> USE DEF Founded, Spreads
<1> DEFINE Family == {S \in Done \cap SUBSET X : \A m \in S : Needs[m] \subseteq S}
<1>1. PICK S \in Family : \A A \in Family : S \subseteq A => S = A
  <2>1. {} \in Family OBVIOUS
  <2>2. Family \in SUBSET (SUBSET X) /\ Family # {} BY <2>1
  <2> HIDE DEF Family
  <2> QED BY <2>2, Maximal
<1>2. ASSUME X # S PROVE FALSE
  <2>1. X \ S # {} BY <1>2
  <2>2. PICK m \in X \ S : Needs[m] \cap (X \ S) = {} BY <2>1
  <2>3. Needs[m] \subseteq S BY <2>2
  <2>4. S \cup {m} \in Family BY <1>1, <2>3
  <2> QED BY <1>1, <2>2, <2>4
<1> QED BY <1>1, <1>2

\* Sets that need the sets above them are such.
Supersets(U) == [p \in SUBSET U |-> {q \in SUBSET U : p \subseteq q /\ p # q}]
LEMMA SetsGrow ==
    ASSUME NEW U, IsFiniteSet(U)
    PROVE  Founded(SUBSET U, Supersets(U))
<1>1. IsFiniteSet(SUBSET U) BY FS_SUBSET
<1>2. Supersets(U) \in [SUBSET U -> SUBSET (SUBSET U)] BY DEF Supersets
<1>3. ASSUME NEW S \in SUBSET (SUBSET U), S # {}
      PROVE  \E m \in S : Supersets(U)[m] \cap S = {}
  <2>1. PICK m \in S : \A A \in S : m \subseteq A => m = A BY <1>3, Maximal
  <2> QED BY <2>1 DEF Supersets
<1> QED BY <1>1, <1>2, <1>3 DEF Founded

-----------------------------------------------------------------------------
(* Schemas *)

\* A schema refers to schemas.
LEMMA SchemaFacts ==
    ASSUME DocumentTyped, NEW n \in Name
    PROVE  /\ schemas[n].kind \in {"ref", "object", "array", "allOf", "oneOf", "scalar", "any"}
           /\ schemas[n].to \in Seq(Name)
           /\ DOMAIN schemas[n].to = 1..Len(schemas[n].to) /\ Len(schemas[n].to) \in Nat
           /\ \A i \in DOMAIN schemas[n].to : schemas[n].to[i] \in Name
           /\ schemas[n].to # <<>> => schemas[n].to[1] \in Name
<1>1. schemas[n] \in O!Schema BY DEF DocumentTyped
<1>2. /\ schemas[n].kind \in {"ref", "object", "array", "allOf", "oneOf", "scalar", "any"}
      /\ schemas[n].to \in Seq(Name)
  BY <1>1 DEF O!Schema
<1> QED BY <1>2

\* One step of Follow, told by g what the longer chains lead to; a g that tells it of a set of
\* chains; and that Follow, a function by its own definition, is one.
FollowFrom(g, seen) ==
    [n \in Name |->
        IF schemas[n].kind = "ref" /\ schemas[n].to # <<>> /\ n \notin seen
        THEN g[seen \cup {n}][schemas[n].to[1]] ELSE n]
Follows(g, S) ==
    /\ g = [seen \in SUBSET Name |-> g[seen]]
    /\ \A seen \in S : g[seen] = FollowFrom(g, seen)

LEMMA FollowSame ==
    ASSUME NEW g, NEW h, NEW seen \in SUBSET Name,
           \A s \in Supersets(Name)[seen] : g[s] = h[s]
    PROVE  FollowFrom(g, seen) = FollowFrom(h, seen)
<1>1. ASSUME NEW n \in Name, n \notin seen PROVE g[seen \cup {n}] = h[seen \cup {n}]
  BY <1>1 DEF Supersets
<1> QED BY <1>1, Zenon DEF FollowFrom

LEMMA DocumentConstants == IsFiniteSet(Name) /\ Root \in Name /\ MAX_DEPTH \in Nat
BY DocumentAssumption, Zenon DEF O!DocumentAssumption, O!IsFiniteSet, IsFiniteSet

LEMMA FollowDefined == O!Follow = [seen \in SUBSET Name |-> FollowFrom(O!Follow, seen)]
<1> DEFINE X == SUBSET Name
           Done == {S \in SUBSET X : \E g : Follows(g, S)}
<1>1. {} \in Done
  <2>1. Follows([s \in X |-> {}], {}) BY Zenon DEF Follows
  <2> QED BY <2>1, Zenon
<1>2. ASSUME NEW S \in Done, NEW S2 \in SUBSET X, S \subseteq S2,
             \A m \in S2 : Supersets(Name)[m] \subseteq S
      PROVE  S2 \in Done
  <2>1. PICK g : Follows(g, S) OBVIOUS
  <2> DEFINE h == [s \in X |-> IF s \in S THEN g[s] ELSE FollowFrom(g, s)]
  <2>2. ASSUME NEW s \in S2 PROVE h[s] = FollowFrom(h, s)
    <3>1. h[s] = FollowFrom(g, s) BY <2>1, Zenon DEF Follows
    <3>2. \A q \in Supersets(Name)[s] : g[q] = h[q] BY <1>2
    <3>3. s \in X OBVIOUS
    <3> HIDE DEF h
    <3> QED BY <3>1, <3>2, <3>3, FollowSame, Zenon
  <2>3. Follows(h, S2) BY <2>2, Zenon DEF Follows
  <2> QED BY <2>3, Zenon
<1>3. X \in Done
  <2> HIDE DEF Done
  <2>1. Spreads(X, Supersets(Name), Done) BY <1>1, <1>2, Zenon DEF Spreads
  <2>2. Founded(X, Supersets(Name)) BY DocumentConstants, SetsGrow, Zenon
  <2> QED BY <2>1, <2>2, Reached, Zenon
<1>4. PICK g : Follows(g, X) BY <1>3
<1>5. g = [s \in SUBSET Name |-> FollowFrom(g, s)] BY <1>4, Zenon DEF Follows
<1>6. \E f : f = [s \in SUBSET Name |-> FollowFrom(f, s)] BY <1>5, Zenon
<1> QED BY <1>6, Zenon DEF O!Follow, FollowFrom

\* A reference is resolved to a schema.
LEMMA Resolved ==
    ASSUME DocumentTyped, NEW n \in Name
    PROVE  O!resolveRef(n) \in Name
<1> DEFINE X == SUBSET Name
           Done == {S \in SUBSET X : \A s \in S : O!Follow[s] \in [Name -> Name]}
<1>1. \A s \in X : O!Follow[s] = FollowFrom(O!Follow, s)
  <2> DEFINE f == O!Follow
  <2>1. f = [s \in X |-> FollowFrom(f, s)] BY FollowDefined, Zenon
  <2> HIDE DEF f
  <2>2. \A s \in X : f[s] = FollowFrom(f, s) BY <2>1, Zenon
  <2> QED BY <2>2, Zenon DEF f
<1>2. ASSUME NEW S \in Done, NEW S2 \in SUBSET X, S \subseteq S2,
             \A m \in S2 : Supersets(Name)[m] \subseteq S
      PROVE  S2 \in Done
  <2>1. ASSUME NEW s \in S2 PROVE O!Follow[s] \in [Name -> Name]
    <3>1. O!Follow[s] = [m \in Name |->
              IF schemas[m].kind = "ref" /\ schemas[m].to # <<>> /\ m \notin s
              THEN O!Follow[s \cup {m}][schemas[m].to[1]] ELSE m]
      BY <1>1, Zenon DEF FollowFrom
    <3>2. ASSUME NEW m \in Name, m \notin s PROVE O!Follow[s \cup {m}] \in [Name -> Name]
      <4>1. s \cup {m} \in Supersets(Name)[s] BY <3>2 DEF Supersets
      <4> QED BY <1>2, <4>1
    <3>3. \A m \in Name : schemas[m].to # <<>> => schemas[m].to[1] \in Name BY SchemaFacts, Zenon
    <3> DEFINE Next(m) == IF schemas[m].kind = "ref" /\ schemas[m].to # <<>> /\ m \notin s
                          THEN O!Follow[s \cup {m}][schemas[m].to[1]] ELSE m
    <3>4. ASSUME NEW m \in Name PROVE Next(m) \in Name
      <4> DEFINE more == schemas[m].kind = "ref" /\ schemas[m].to # <<>> /\ m \notin s
      <4>1. CASE ~more BY <4>1
      <4>2. CASE more
        <5>1. O!Follow[s \cup {m}] \in [Name -> Name] /\ schemas[m].to[1] \in Name
          BY <3>2, <3>3, <4>2, Zenon
        <5> DEFINE f == O!Follow[s \cup {m}]
                   x == schemas[m].to[1]
        <5> HIDE DEF f, x
        <5>2. f \in [Name -> Name] /\ x \in Name BY <5>1, Zenon DEF f, x
        <5>3. f[x] \in Name BY <5>2
        <5> QED BY <4>2, <5>3, Zenon DEF f, x
      <4> QED BY <4>1, <4>2
    <3> HIDE DEF Next
    <3>5. [m \in Name |-> Next(m)] \in [Name -> Name] BY <3>4
    <3> QED BY <3>1, <3>5, Zenon DEF Next
  <2> QED BY <2>1
<1>3. X \in Done
  <2>1. {} \in Done OBVIOUS
  <2> HIDE DEF Done
  <2>2. Spreads(X, Supersets(Name), Done) BY <1>2, <2>1, Zenon DEF Spreads
  <2> QED BY <2>2, DocumentConstants, SetsGrow, Reached, Zenon
<1>4. O!Follow[{}] \in [Name -> Name] BY <1>3
<1> QED BY <1>4 DEF O!resolveRef

\* What mergeAllOf needs to know: of a schema that does not loop, its parts.
NeedsParts == [n \in Name |-> IF O!Loops(n) THEN {} ELSE O!Parts(n)]
LEMMA PartsEnd ==
    ASSUME DocumentTyped
    PROVE  Founded(Name, NeedsParts)
<1>1. ASSUME NEW n \in Name PROVE O!Parts(n) \subseteq Name
  <2>1. O!Range(schemas[n].to) \subseteq Name BY SchemaFacts DEF O!Range
  <2>2. \A m \in O!Range(schemas[n].to) : O!resolveRef(m) \in Name BY <2>1, Resolved
  <2> QED BY <2>2 DEF O!Parts
<1>2. NeedsParts \in [Name -> SUBSET Name] BY <1>1 DEF NeedsParts
<1>3. ASSUME NEW S \in SUBSET Name, S # {}, \A m \in S : NeedsParts[m] \cap S # {} PROVE FALSE
  <2>1. \A m \in S : ~O!Loops(m) /\ O!Parts(m) \cap S # {} BY <1>3 DEF NeedsParts
  <2> QED BY <1>3, <2>1, Zenon DEF O!Loops
<1> QED BY <1>2, <1>3, DocumentConstants DEF Founded

\* One step of mergeAllOf, told by g what its parts are merged into.
OwnTerms(d) ==
    [type |-> IF d.kind \in {"object", "array", "scalar"} THEN d.kind ELSE "",
     properties |-> IF d.kind = "object" THEN d.to ELSE <<>>,
     items |-> IF d.kind = "array" THEN d.to ELSE <<>>]
JoinedTerms(I, merged) ==
    [type |-> IF {i \in I : merged[i].type # ""} = {} THEN ""
              ELSE merged[O!Lowest({i \in I : merged[i].type # ""})].type,
     properties |-> [k \in UNION {DOMAIN merged[i].properties : i \in I} |->
                        merged[O!Highest({i \in I : k \in DOMAIN merged[i].properties})].properties[k]],
     items |-> <<>>]
PartsOf(g, n) == [i \in DOMAIN schemas[n].to |-> g[O!resolveRef(schemas[n].to[i])]]
MergeFrom(g, n) ==
    IF schemas[n].kind # "allOf" \/ O!Loops(n) THEN OwnTerms(schemas[n])
    ELSE JoinedTerms(DOMAIN schemas[n].to, PartsOf(g, n))
MergesAt(g, S) ==
    /\ g = [n \in Name |-> g[n]]
    /\ \A n \in S : g[n] = MergeFrom(g, n)

LEMMA MergeSame ==
    ASSUME NEW g, NEW h, NEW n \in Name, \A m \in NeedsParts[n] : g[m] = h[m]
    PROVE  MergeFrom(g, n) = MergeFrom(h, n)
<1>1. CASE schemas[n].kind # "allOf" \/ O!Loops(n) BY <1>1, Zenon DEF MergeFrom
<1>2. CASE schemas[n].kind = "allOf" /\ ~O!Loops(n)
  <2>1. \A i \in DOMAIN schemas[n].to : O!resolveRef(schemas[n].to[i]) \in O!Parts(n)
    BY <1>2, Zenon DEF O!Parts, O!Range
  <2>2. \A m \in O!Parts(n) : g[m] = h[m] BY <1>2 DEF NeedsParts
  <2>3. PartsOf(g, n) = PartsOf(h, n) BY <2>1, <2>2, Zenon DEF PartsOf
  <2> QED BY <2>3, Zenon DEF MergeFrom
<1> QED BY <1>1, <1>2, Zenon

LEMMA MergeDefined ==
    ASSUME DocumentTyped
    PROVE  O!mergeAllOf = [n \in Name |-> MergeFrom(O!mergeAllOf, n)]
<1> DEFINE Done == {S \in SUBSET Name : \E g : MergesAt(g, S)}
<1>1. {} \in Done
  <2>1. MergesAt([s \in Name |-> {}], {}) BY Zenon DEF MergesAt
  <2> QED BY <2>1, Zenon
<1>2. ASSUME NEW S \in Done, NEW S2 \in SUBSET Name, S \subseteq S2,
             \A m \in S2 : NeedsParts[m] \subseteq S
      PROVE  S2 \in Done
  <2>1. PICK g : MergesAt(g, S) OBVIOUS
  <2> DEFINE h == [s \in Name |-> IF s \in S THEN g[s] ELSE MergeFrom(g, s)]
  <2>2. ASSUME NEW s \in S2 PROVE h[s] = MergeFrom(h, s)
    <3>1. h[s] = MergeFrom(g, s) BY <2>1, Zenon DEF MergesAt
    <3>2. \A q \in NeedsParts[s] : g[q] = h[q] BY <1>2
    <3>3. s \in Name OBVIOUS
    <3> HIDE DEF h
    <3> QED BY <3>1, <3>2, <3>3, MergeSame, Zenon
  <2>3. MergesAt(h, S2) BY <2>2, Zenon DEF MergesAt
  <2> QED BY <2>3, Zenon
<1>3. Name \in Done
  <2> HIDE DEF Done
  <2>1. Spreads(Name, NeedsParts, Done) BY <1>1, <1>2, Zenon DEF Spreads
  <2> QED BY <2>1, PartsEnd, Reached, Zenon
<1>4. PICK g : MergesAt(g, Name) BY <1>3
<1>5. g = [s \in Name |-> MergeFrom(g, s)] BY <1>4, Zenon DEF MergesAt
<1>6. \E f : f = [s \in Name |-> MergeFrom(f, s)] BY <1>5, Zenon
<1> QED BY <1>6, Zenon DEF O!mergeAllOf, MergeFrom, OwnTerms, JoinedTerms, PartsOf

\* What is merged refers to schemas.
MergedTyped(r) ==
    /\ r.items \in Seq(Name)
    /\ \A k \in DOMAIN r.properties : r.properties[k] \in Name
LEMMA Joined ==
    ASSUME NEW n \in Nat, NEW merged, DOMAIN merged = 1..n, \A i \in 1..n : MergedTyped(merged[i])
    PROVE  MergedTyped(JoinedTerms(1..n, merged))
<1> DEFINE r == JoinedTerms(1..n, merged)
           Having(k) == {i \in 1..n : k \in DOMAIN merged[i].properties}
<1>1. r.items = <<>> BY DEF JoinedTerms
<1>2. r.properties = [k \in UNION {DOMAIN merged[i].properties : i \in 1..n} |->
                        merged[O!Highest(Having(k))].properties[k]]
  BY DEF JoinedTerms
<1> HIDE DEF r
<1>3. ASSUME NEW k \in DOMAIN r.properties PROVE r.properties[k] \in Name
  <2>1. k \in UNION {DOMAIN merged[i].properties : i \in 1..n}
        /\ r.properties[k] = merged[O!Highest(Having(k))].properties[k]
    BY <1>2
  <2>2. Having(k) \in SUBSET (1..n) /\ Having(k) # {} BY <2>1
  <2> DEFINE top == O!Highest(Having(k))
  <2>3. top \in Having(k)
    <3> HIDE DEF Having
    <3> QED BY <2>2, Extremes
  <2> HIDE DEF top
  <2>4. top \in 1..n /\ k \in DOMAIN merged[top].properties BY <2>3
  <2> QED BY <2>1, <2>4, Zenon DEF MergedTyped, top
<1>4. r.items \in Seq(Name) BY <1>1
<1> QED BY <1>3, <1>4, Zenon DEF MergedTyped, r

\* The properties and items of a schema are schemas.
LEMMA MergesTyped ==
    ASSUME DocumentTyped, NEW n \in Name
    PROVE  MergedTyped(O!mergeAllOf[n])
<1> DEFINE Done == {S \in SUBSET Name : \A s \in S : MergedTyped(O!mergeAllOf[s])}
<1>1. \A s \in Name : O!mergeAllOf[s] = MergeFrom(O!mergeAllOf, s)
  <2> DEFINE f == O!mergeAllOf
  <2>1. f = [s \in Name |-> MergeFrom(f, s)] BY MergeDefined, Zenon
  <2> HIDE DEF f
  <2>2. \A s \in Name : f[s] = MergeFrom(f, s) BY <2>1, Zenon
  <2> QED BY <2>2, Zenon DEF f
<1>2. ASSUME NEW S \in Done, NEW S2 \in SUBSET Name, S \subseteq S2,
             \A m \in S2 : NeedsParts[m] \subseteq S
      PROVE  S2 \in Done
  <2>1. ASSUME NEW s \in S2 PROVE MergedTyped(O!mergeAllOf[s])
    <3>1. /\ schemas[s].to \in Seq(Name) /\ Len(schemas[s].to) \in Nat
          /\ DOMAIN schemas[s].to = 1..Len(schemas[s].to)
          /\ \A i \in DOMAIN schemas[s].to : schemas[s].to[i] \in Name
      BY SchemaFacts, Zenon
    <3>2. CASE schemas[s].kind # "allOf" \/ O!Loops(s)
      <4>1. O!mergeAllOf[s] = OwnTerms(schemas[s]) BY <1>1, <3>2, Zenon DEF MergeFrom
      <4>2. OwnTerms(schemas[s]).items \in {<<>>, schemas[s].to}
            /\ OwnTerms(schemas[s]).properties \in {<<>>, schemas[s].to}
        BY DEF OwnTerms
      <4>3. /\ <<>> \in Seq(Name) /\ \A i \in DOMAIN <<>> : <<>>[i] \in Name
        OBVIOUS
      <4> DEFINE terms == OwnTerms(schemas[s])
      <4> HIDE DEF terms
      <4>4. terms.items \in Seq(Name) /\ terms.properties \in {<<>>, schemas[s].to}
        BY <3>1, <4>2, <4>3, Zenon DEF terms
      <4>5. MergedTyped(terms) BY <3>1, <4>3, <4>4, Zenon DEF MergedTyped
      <4> QED BY <4>1, <4>5, Zenon DEF terms
    <3>3. CASE schemas[s].kind = "allOf" /\ ~O!Loops(s)
      <4> DEFINE merged == PartsOf(O!mergeAllOf, s)
                 n1 == Len(schemas[s].to)
      <4>1. O!mergeAllOf[s] = JoinedTerms(DOMAIN schemas[s].to, merged)
        BY <1>1, <3>3, Zenon DEF MergeFrom
      <4>2. ASSUME NEW i \in 1..n1 PROVE MergedTyped(merged[i])
        <5>1. O!resolveRef(schemas[s].to[i]) \in O!Parts(s)
          BY <3>1, <3>3, Zenon DEF O!Parts, O!Range
        <5>2. O!Parts(s) \subseteq S BY <1>2, <3>3 DEF NeedsParts
        <5>3. MergedTyped(O!mergeAllOf[O!resolveRef(schemas[s].to[i])]) BY <5>1, <5>2
        <5>4. merged[i] = O!mergeAllOf[O!resolveRef(schemas[s].to[i])] BY <3>1, Zenon DEF PartsOf
        <5> QED BY <5>3, <5>4, Zenon
      <4>3. DOMAIN merged = 1..n1 BY <3>1, Zenon DEF PartsOf
      <4> HIDE DEF merged, n1
      <4>4. MergedTyped(JoinedTerms(1..n1, merged)) BY <3>1, <4>2, <4>3, Joined, Zenon DEF n1
      <4> QED BY <3>1, <4>1, <4>4, Zenon DEF n1
    <3> QED BY <3>2, <3>3, Zenon
  <2> QED BY <2>1
<1>3. Name \in Done
  <2>1. {} \in Done OBVIOUS
  <2> HIDE DEF Done
  <2>2. Spreads(Name, NeedsParts, Done) BY <1>2, <2>1, Zenon DEF Spreads
  <2> QED BY <2>2, PartsEnd, Reached, Zenon
<1> QED BY <1>3

-----------------------------------------------------------------------------
(* Examples *)

\* What an example is made from: "below" has the examples on the way through the schema, and
\* "merged" those on the way through what its parts were merged into.
ExampleFrom(path, mode, s, below, merged) ==
    LET d == schemas[s]
        on == path \cup {<<s, "schema">>}
    IN  IF O!Cardinality(path) >= MAX_DEPTH \/ <<s, "schema">> \in path THEN O!Undefined
        ELSE IF d.given THEN [t |-> "given", v |-> <<>>]
        ELSE IF d.kind = "allOf" THEN
                IF O!Loops(s) THEN O!Overflow
                ELSE IF O!Cardinality(on) >= MAX_DEPTH THEN O!Undefined
                ELSE O!Built(s, mode, merged)
        ELSE IF d.kind = "oneOf" /\ d.to # <<>> THEN below[d.to[1]]
        ELSE O!Built(s, mode, below)
Through(path, s) == path \cup {<<s, "schema">>}
Joining(path, s) == path \cup {<<s, "schema">>} \cup {<<s, "merged">>}
ExamplesFrom(g, path) ==
    [mode \in O!Modes |-> [n \in Name |->
        ExampleFrom(path, mode, O!resolveRef(n), g[Through(path, O!resolveRef(n))][mode],
                    g[Joining(path, O!resolveRef(n))][mode])]]

Places == Name \X {"schema", "merged"}
LEMMA PathsEnd ==
    O!Path = SUBSET Places /\ IsFiniteSet(Places) /\ Founded(SUBSET Places, Supersets(Places))
<1>1. IsFiniteSet({"schema", "merged"})
  <2>1. IsFiniteSet({"schema"}) BY FS_Singleton, Zenon
  <2>2. IsFiniteSet({"schema"} \cup {"merged"}) BY <2>1, FS_AddElement, Zenon
  <2>3. {"schema", "merged"} = {"schema"} \cup {"merged"} OBVIOUS
  <2> QED BY <2>2, <2>3, Zenon
<1>2. IsFiniteSet(Places) BY <1>1, DocumentConstants, FS_Product DEF Places
<1> QED BY <1>2, SetsGrow, Zenon DEF O!Path, Places

LEMMA WaysGrow ==
    ASSUME NEW path \in SUBSET Places, NEW s \in Name, <<s, "schema">> \notin path
    PROVE  /\ Through(path, s) \in Supersets(Places)[path]
           /\ Joining(path, s) \in Supersets(Places)[path]
BY DEF Through, Joining, Supersets, Places

\* Only longer paths are asked for.
LEMMA ExampleSame ==
    ASSUME DocumentTyped, NEW g, NEW h, NEW path \in SUBSET Places,
           \A q \in Supersets(Places)[path] : g[q] = h[q]
    PROVE  ExamplesFrom(g, path) = ExamplesFrom(h, path)
<1>1. ASSUME NEW n \in Name, NEW mode \in O!Modes
      PROVE  ExampleFrom(path, mode, O!resolveRef(n), g[Through(path, O!resolveRef(n))][mode],
                    g[Joining(path, O!resolveRef(n))][mode])
             = ExampleFrom(path, mode, O!resolveRef(n), h[Through(path, O!resolveRef(n))][mode],
                    h[Joining(path, O!resolveRef(n))][mode])
  <2> DEFINE s == O!resolveRef(n)
  <2>1. s \in Name BY Resolved
  <2> HIDE DEF s
  <2>2. CASE <<s, "schema">> \in path BY <2>2, Zenon DEF ExampleFrom, s
  <2>3. CASE <<s, "schema">> \notin path
    <3>1. g[Through(path, s)] = h[Through(path, s)] /\ g[Joining(path, s)] = h[Joining(path, s)]
      BY <2>1, <2>3, WaysGrow, Zenon
    <3> QED BY <3>1, Zenon DEF s
  <2> QED BY <2>2, <2>3, Zenon
<1> QED BY <1>1, Zenon DEF ExamplesFrom

Exemplified(g, S) ==
    /\ g = [p \in SUBSET Places |-> g[p]]
    /\ \A p \in S : g[p] = ExamplesFrom(g, p)
LEMMA ExampleDefined ==
    ASSUME DocumentTyped
    PROVE  O!exampleFromSchema = [path \in O!Path |-> ExamplesFrom(O!exampleFromSchema, path)]
<1> DEFINE X == SUBSET Places
           Done == {S \in SUBSET X : \E g : Exemplified(g, S)}
<1>1. {} \in Done
  <2>1. Exemplified([s \in X |-> {}], {}) BY Zenon DEF Exemplified
  <2> QED BY <2>1, Zenon
<1>2. ASSUME NEW S \in Done, NEW S2 \in SUBSET X, S \subseteq S2,
             \A m \in S2 : Supersets(Places)[m] \subseteq S
      PROVE  S2 \in Done
  <2>1. PICK g : Exemplified(g, S) OBVIOUS
  <2> DEFINE h == [s \in X |-> IF s \in S THEN g[s] ELSE ExamplesFrom(g, s)]
  <2>2. ASSUME NEW s \in S2 PROVE h[s] = ExamplesFrom(h, s)
    <3>1. h[s] = ExamplesFrom(g, s) BY <2>1, Zenon DEF Exemplified
    <3>2. \A q \in Supersets(Places)[s] : g[q] = h[q] BY <1>2
    <3>3. s \in X OBVIOUS
    <3> HIDE DEF h
    <3> QED BY <3>1, <3>2, <3>3, ExampleSame, Zenon
  <2>3. Exemplified(h, S2) BY <2>2, Zenon DEF Exemplified
  <2> QED BY <2>3, Zenon
<1>3. X \in Done
  <2> HIDE DEF Done
  <2>1. Spreads(X, Supersets(Places), Done) BY <1>1, <1>2, Zenon DEF Spreads
  <2> QED BY <2>1, PathsEnd, Reached, Zenon
<1>4. PICK g : Exemplified(g, X) BY <1>3
<1>5. g = [s \in SUBSET Places |-> ExamplesFrom(g, s)] BY <1>4, Zenon DEF Exemplified
<1>6. \E f : f = [s \in SUBSET Places |-> ExamplesFrom(f, s)] BY <1>5, Zenon
<1>7. O!Path = SUBSET Places BY PathsEnd
<1>8. \E f : f = [s \in O!Path |-> ExamplesFrom(f, s)] BY <1>6, <1>7, Zenon
<1> QED BY <1>8, Zenon DEF O!exampleFromSchema, ExamplesFrom, ExampleFrom, Through, Joining

\* What may stand for a schema, told what may stand for those below it.
Meant(m, mode) ==
    ~(IF mode = "request" THEN schemas[O!resolveRef(m)].readOnly ELSE schemas[O!resolveRef(m)].writeOnly)
MeantKeys(d, mode, of) ==
    {k \in DOMAIN d.properties : Meant(d.properties[k], mode) /\ of[d.properties[k]] # {}}
FittingType(s, d, mode, of) ==
    CASE O!schemaTypes(s) = "object" ->
            [t: {"object"}, v: {f \in [MeantKeys(d, mode, of) -> UNION O!Range(of)] :
                                   \A k \in MeantKeys(d, mode, of) : f[k] \in of[d.properties[k]]}]
      [] O!schemaTypes(s) = "array" ->
            [t: {"array"},
             v: {<<>>} \cup (IF d.items = <<>> THEN {} ELSE {<<x>> : x \in of[d.items[1]]})]
      [] O!schemaTypes(s) = "scalar" -> [t: {"scalar"}, v: {<<>>}]
      [] OTHER -> {}
IsMerged(s) == schemas[s].kind = "allOf" /\ ~schemas[s].given
FittingFrom(up, mode, s, of) ==
    IF <<s, "schema">> \in up \/ O!Cardinality(up) + (IF IsMerged(s) THEN 2 ELSE 1) > MAX_DEPTH THEN {}
    ELSE IF schemas[s].given THEN [t: {"given"}, v: {<<>>}]
    ELSE IF schemas[s].kind = "oneOf" /\ schemas[s].to # <<>> THEN of[schemas[s].to[1]]
    ELSE FittingType(s, O!mergeAllOf[s], mode, of)
Way(up, s) == up \cup ({s} \X (IF IsMerged(s) THEN {"schema", "merged"} ELSE {"schema"}))
FittingsFrom(g, up) ==
    [mode \in O!Modes |-> [n \in Name |->
        FittingFrom(up, mode, O!resolveRef(n), g[Way(up, O!resolveRef(n))][mode])]]
\* The way to what is below a schema is the one its example is made on.
LEMMA WayIs ==
    ASSUME NEW up, NEW s
    PROVE  Way(up, s) = IF IsMerged(s) THEN Joining(up, s) ELSE Through(up, s)
<1>1. {s} \X {"schema", "merged"} = {<<s, "schema">>} \cup {<<s, "merged">>} OBVIOUS
<1>2. {s} \X {"schema"} = {<<s, "schema">>} OBVIOUS
<1>3. (up \cup {<<s, "schema">>}) \cup {<<s, "merged">>}
      = up \cup ({<<s, "schema">>} \cup {<<s, "merged">>})
  OBVIOUS
<1> QED BY <1>1, <1>2, <1>3, Zenon DEF Way, Joining, Through

LEMMA FittingSame ==
    ASSUME DocumentTyped, NEW g, NEW h, NEW path \in SUBSET Places,
           \A q \in Supersets(Places)[path] : g[q] = h[q]
    PROVE  FittingsFrom(g, path) = FittingsFrom(h, path)
<1>1. ASSUME NEW n \in Name, NEW mode \in O!Modes
      PROVE  FittingFrom(path, mode, O!resolveRef(n), g[Way(path, O!resolveRef(n))][mode])
             = FittingFrom(path, mode, O!resolveRef(n), h[Way(path, O!resolveRef(n))][mode])
  <2> DEFINE s == O!resolveRef(n)
  <2>1. s \in Name BY Resolved
  <2> HIDE DEF s
  <2>2. CASE <<s, "schema">> \in path BY <2>2, Zenon DEF FittingFrom, s
  <2>3. CASE <<s, "schema">> \notin path
    <3>1. Way(path, s) \in Supersets(Places)[path] BY <2>1, <2>3, WaysGrow, WayIs, Zenon
    <3>2. g[Way(path, s)] = h[Way(path, s)] BY <3>1, Zenon
    <3> QED BY <3>2, Zenon DEF s
  <2> QED BY <2>2, <2>3, Zenon
<1> QED BY <1>1, Zenon DEF FittingsFrom

Fitted(g, S) ==
    /\ g = [p \in SUBSET Places |-> g[p]]
    /\ \A p \in S : g[p] = FittingsFrom(g, p)
LEMMA FittingDefined ==
    ASSUME DocumentTyped
    PROVE  O!Fitting = [up \in O!Path |-> FittingsFrom(O!Fitting, up)]
<1> DEFINE X == SUBSET Places
           Done == {S \in SUBSET X : \E g : Fitted(g, S)}
<1>1. {} \in Done
  <2>1. Fitted([s \in X |-> {}], {}) BY Zenon DEF Fitted
  <2> QED BY <2>1, Zenon
<1>2. ASSUME NEW S \in Done, NEW S2 \in SUBSET X, S \subseteq S2,
             \A m \in S2 : Supersets(Places)[m] \subseteq S
      PROVE  S2 \in Done
  <2>1. PICK g : Fitted(g, S) OBVIOUS
  <2> DEFINE h == [s \in X |-> IF s \in S THEN g[s] ELSE FittingsFrom(g, s)]
  <2>2. ASSUME NEW s \in S2 PROVE h[s] = FittingsFrom(h, s)
    <3>1. h[s] = FittingsFrom(g, s) BY <2>1, Zenon DEF Fitted
    <3>2. \A q \in Supersets(Places)[s] : g[q] = h[q] BY <1>2
    <3>3. s \in X OBVIOUS
    <3> HIDE DEF h
    <3> QED BY <3>1, <3>2, <3>3, FittingSame, Zenon
  <2>3. Fitted(h, S2) BY <2>2, Zenon DEF Fitted
  <2> QED BY <2>3, Zenon
<1>3. X \in Done
  <2> HIDE DEF Done
  <2>1. Spreads(X, Supersets(Places), Done) BY <1>1, <1>2, Zenon DEF Spreads
  <2> QED BY <2>1, PathsEnd, Reached, Zenon
<1>4. PICK g : Fitted(g, X) BY <1>3
<1>5. g = [s \in SUBSET Places |-> FittingsFrom(g, s)] BY <1>4, Zenon DEF Fitted
<1>6. \E f : f = [s \in SUBSET Places |-> FittingsFrom(f, s)] BY <1>5, Zenon
<1>7. O!Path = SUBSET Places BY PathsEnd
<1>8. \E f : f = [s \in O!Path |-> FittingsFrom(f, s)] BY <1>6, <1>7, Zenon
<1> QED
  BY <1>8, Zenon DEF O!Fitting, FittingsFrom, FittingFrom, FittingType, MeantKeys, Meant, IsMerged, Way

\* What ExamplesFit asks of a value, given those that may stand for the schema.
LoopFree == ~\E n \in Name : O!Loops(n)
Suits(value, fitting) ==
    /\ value = O!Overflow => ~LoopFree
    /\ value = O!Undefined => fitting = {}
    /\ value # O!Overflow /\ value # O!Undefined /\ LoopFree => value \in fitting

LEMMA NeitherIsOther == O!Undefined # O!Overflow
BY DEF O!Undefined, O!Overflow
LEMMA ValueSuits ==
    ASSUME NEW value, NEW fitting, value.t \in {"given", "object", "array", "scalar"},
           LoopFree => value \in fitting
    PROVE  Suits(value, fitting)
<1>1. value # O!Undefined /\ value # O!Overflow BY DEF O!Undefined, O!Overflow
<1> QED BY <1>1, Zenon DEF Suits

LEMMA ModesExclude ==
    ASSUME NEW m, NEW mode \in O!Modes
    PROVE  Meant(m, mode) <=> ~O!Excluded(m, mode)
BY DEF O!Modes, Meant, O!Excluded

\* An object: the same properties are there as in those that fit.
ObjectOf(asked, props, of) ==
    [k \in {j \in asked : of[props[j]] # O!Undefined} |-> of[props[k]]]
LEMMA ObjectSuits ==
    ASSUME NEW props, NEW of, NEW fit, DOMAIN fit = Name, NEW asked \in SUBSET DOMAIN props,
           \A k \in asked : props[k] \in Name /\ Suits(of[props[k]], fit[props[k]]),
           LoopFree, \A k \in asked : of[props[k]] # O!Overflow,
           NEW keys, keys = {k \in asked : fit[props[k]] # {}}
    PROVE  ObjectOf(asked, props, of) \in {f \in [keys -> UNION O!Range(fit)] :
                                              \A k \in keys : f[k] \in fit[props[k]]}
<1>1. ASSUME NEW k \in asked
      PROVE  /\ of[props[k]] # O!Undefined <=> fit[props[k]] # {}
             /\ fit[props[k]] # {} => of[props[k]] \in fit[props[k]]
             /\ fit[props[k]] \in O!Range(fit)
  <2>1. fit[props[k]] \in O!Range(fit) BY DEF O!Range
  <2> QED BY <2>1, Zenon DEF Suits
<1>2. keys = {j \in asked : of[props[j]] # O!Undefined} BY <1>1
<1>3. ObjectOf(asked, props, of) = [k \in keys |-> of[props[k]]] BY <1>2, Zenon DEF ObjectOf
<1>4. \A k \in keys : of[props[k]] \in fit[props[k]] /\ of[props[k]] \in UNION O!Range(fit)
  BY <1>1
<1> QED BY <1>3, <1>4

\* A value made from the type of a schema suits it if the values below suit theirs.
LEMMA BuiltSuits ==
    ASSUME DocumentTyped, NEW s \in Name, NEW mode \in O!Modes, NEW of, NEW fit, DOMAIN fit = Name,
           \A m \in Name : Suits(of[m], fit[m])
    PROVE  Suits(O!Built(s, mode, of), FittingType(s, O!mergeAllOf[s], mode, fit))
<1> DEFINE d == O!mergeAllOf[s]
           F == FittingType(s, d, mode, fit)
           B == O!Built(s, mode, of)
           asked == {k \in DOMAIN d.properties : ~O!Excluded(d.properties[k], mode)}
           single == IF d.items = <<>> THEN O!Undefined ELSE of[d.items[1]]
<1>1. /\ d.items \in Seq(Name)
      /\ \A k \in DOMAIN d.properties : d.properties[k] \in Name
  BY MergesTyped, Zenon DEF MergedTyped
<1> SUFFICES Suits(B, F) OBVIOUS
<1>2. CASE O!schemaTypes(s) = "object"
  <2>1. B = IF \E k \in asked : of[d.properties[k]] = O!Overflow THEN O!Overflow
            ELSE [t |-> "object", v |-> ObjectOf(asked, d.properties, of)]
    BY <1>2, Zenon DEF O!Built, ObjectOf
  <2>2. F = [t: {"object"}, v: {f \in [MeantKeys(d, mode, fit) -> UNION O!Range(fit)] :
                                   \A k \in MeantKeys(d, mode, fit) : f[k] \in fit[d.properties[k]]}]
    BY <1>2, Zenon DEF FittingType
  <2> HIDE DEF d, B, F
  <2>3. MeantKeys(d, mode, fit) = {k \in asked : fit[d.properties[k]] # {}}
    BY ModesExclude DEF MeantKeys
  <2>4. CASE \E k \in asked : of[d.properties[k]] = O!Overflow
    <3>1. B = O!Overflow /\ ~LoopFree BY <1>1, <2>1, <2>4, Zenon DEF Suits
    <3> QED BY <3>1, NeitherIsOther, Zenon DEF Suits
  <2>5. CASE ~\E k \in asked : of[d.properties[k]] = O!Overflow
    <3> DEFINE o == ObjectOf(asked, d.properties, of)
    <3>1. B = [t |-> "object", v |-> o] BY <2>1, <2>5, Zenon
    <3>2. ASSUME LoopFree
          PROVE  o \in {f \in [MeantKeys(d, mode, fit) -> UNION O!Range(fit)] :
                           \A k \in MeantKeys(d, mode, fit) : f[k] \in fit[d.properties[k]]}
      <4>1. \A k \in asked : d.properties[k] \in Name
                             /\ Suits(of[d.properties[k]], fit[d.properties[k]])
        BY <1>1
      <4>2. asked \in SUBSET DOMAIN d.properties OBVIOUS
      <4> HIDE DEF asked
      <4> QED BY <2>3, <2>5, <3>2, <4>1, <4>2, ObjectSuits, Zenon
    <3> HIDE DEF o, asked
    <3>3. LoopFree => B \in F BY <2>2, <3>1, <3>2
    <3>4. B.t \in {"object", "array"} BY <3>1
    <3> QED BY <3>3, <3>4, ValueSuits
  <2> QED BY <2>4, <2>5, Zenon
<1>3. CASE O!schemaTypes(s) = "array"
  <2>1. B = IF single = O!Overflow THEN O!Overflow
            ELSE [t |-> "array", v |-> IF single = O!Undefined THEN <<>> ELSE <<single>>]
    BY <1>3, Zenon DEF O!Built
  <2>2. F = [t: {"array"},
             v: {<<>>} \cup (IF d.items = <<>> THEN {} ELSE {<<x>> : x \in fit[d.items[1]]})]
    BY <1>3, Zenon DEF FittingType
  <2>3. d.items # <<>> => Suits(single, fit[d.items[1]])
    <3> HIDE DEF d
    <3>1. d.items # <<>> => d.items[1] \in Name BY <1>1
    <3> QED BY <3>1, Zenon
  <2> HIDE DEF d, single, B, F
  <2>4. CASE single = O!Overflow
    <3>1. B = O!Overflow BY <2>1, <2>4, Zenon
    <3>2. d.items # <<>> BY <2>4, NeitherIsOther, Zenon DEF single
    <3> QED BY <2>3, <2>4, <3>1, <3>2, NeitherIsOther, Zenon DEF Suits
  <2>5. CASE single # O!Overflow
    <3> DEFINE a == IF single = O!Undefined THEN <<>> ELSE <<single>>
    <3>1. B = [t |-> "array", v |-> a] BY <2>1, <2>5, Zenon
    <3>2. ASSUME LoopFree
          PROVE  a \in {<<>>} \cup (IF d.items = <<>> THEN {} ELSE {<<x>> : x \in fit[d.items[1]]})
      <4>1. CASE single = O!Undefined BY <4>1
      <4>2. CASE single # O!Undefined
        <5>1. d.items # <<>> BY <4>2, Zenon DEF single
        <5>2. single \in fit[d.items[1]] BY <2>3, <2>5, <3>2, <4>2, <5>1, Zenon DEF Suits
        <5> QED BY <4>2, <5>1, <5>2
      <4> QED BY <4>1, <4>2
    <3> HIDE DEF a
    <3>3. LoopFree => B \in F BY <2>2, <3>1, <3>2
    <3>4. B.t \in {"object", "array"} BY <3>1
    <3> QED BY <3>3, <3>4, ValueSuits
  <2> QED BY <2>4, <2>5, Zenon
<1>4. CASE O!schemaTypes(s) = "scalar"
  <2>1. B = [t |-> "scalar", v |-> <<>>] BY <1>4, Zenon DEF O!Built
  <2>2. F = [t: {"scalar"}, v: {<<>>}] BY <1>4, Zenon DEF FittingType
  <2> HIDE DEF B, F
  <2>3. B \in F BY <2>1, <2>2
  <2>4. B.t = "scalar" BY <2>1
  <2> QED BY <2>3, <2>4, ValueSuits
<1>5. CASE O!schemaTypes(s) \notin {"object", "array", "scalar"}
  <2>1. B = O!Undefined /\ F = {} BY <1>5, Zenon DEF O!Built, FittingType
  <2> QED BY <2>1, NeitherIsOther, Zenon DEF Suits
<1> QED BY <1>2, <1>3, <1>4, <1>5, Zenon

\* The step: what is made below a path suits if it does further down.
LEMMA SuitsHere ==
    ASSUME DocumentTyped, NEW p \in SUBSET Places, NEW s \in Name, NEW mode \in O!Modes,
           NEW below, NEW merged, NEW fit, DOMAIN fit = Name,
           <<s, "schema">> \notin p /\ IsMerged(s) => \A m \in Name : Suits(merged[m], fit[m]),
           <<s, "schema">> \notin p /\ ~IsMerged(s) => \A m \in Name : Suits(below[m], fit[m])
    PROVE  Suits(ExampleFrom(p, mode, s, below, merged), FittingFrom(p, mode, s, fit))
<1> DEFINE v == ExampleFrom(p, mode, s, below, merged)
           F == FittingFrom(p, mode, s, fit)
           c == O!Cardinality(p)
           on == p \cup {<<s, "schema">>}
           d == schemas[s]
<1>1. /\ c \in Nat /\ MAX_DEPTH \in Nat
      /\ <<s, "schema">> \notin p => O!Cardinality(on) = c + 1
  <2>1. IsFiniteSet(p) /\ Cardinality(p) \in Nat BY PathsEnd, FS_Subset, FS_CardinalityType
  <2> QED BY <2>1, DocumentConstants, FS_AddElement, DocumentCardinality
<1>2. d.to # <<>> => d.to[1] \in Name BY SchemaFacts, Zenon
<1> SUFFICES Suits(v, F) OBVIOUS
<1> HIDE DEF c
<1>3. CASE <<s, "schema">> \in p
  <2>1. v = O!Undefined /\ F = {} BY <1>3, Zenon DEF ExampleFrom, FittingFrom
  <2> QED BY <2>1, NeitherIsOther, Zenon DEF Suits
<1>4. CASE c >= MAX_DEPTH
  <2>1. c + 1 > MAX_DEPTH /\ c + 2 > MAX_DEPTH BY <1>1, <1>4
  <2>2. v = O!Undefined BY <1>4, Zenon DEF ExampleFrom, c
  <2>3. F = {} BY <2>1, Zenon DEF FittingFrom, c
  <2> QED BY <2>2, <2>3, NeitherIsOther, Zenon DEF Suits
<1>5. CASE <<s, "schema">> \notin p /\ ~(c >= MAX_DEPTH)
  <2>1. ~(c + 1 > MAX_DEPTH) BY <1>1, <1>5
  <2>2. CASE d.given
    <3>1. v = [t |-> "given", v |-> <<>>] BY <1>5, <2>2, Zenon DEF ExampleFrom, c
    <3>2. F = [t: {"given"}, v: {<<>>}] BY <1>5, <2>1, <2>2, Zenon DEF FittingFrom, IsMerged, c
    <3> HIDE DEF v, F
    <3>3. v \in F /\ v.t = "given" BY <3>1, <3>2
    <3> QED BY <3>3, ValueSuits
  <2>3. CASE ~d.given /\ d.kind = "allOf"
    <3>1. IsMerged(s) BY <2>3, Zenon DEF IsMerged
    <3>2. CASE O!Loops(s)
      <4>1. v = O!Overflow BY <1>5, <2>3, <3>2, Zenon DEF ExampleFrom, c
      <4>2. ~LoopFree BY <3>2, Zenon DEF LoopFree
      <4> QED BY <4>1, <4>2, NeitherIsOther, Zenon DEF Suits
    <3>3. CASE ~O!Loops(s) /\ O!Cardinality(on) >= MAX_DEPTH
      <4>1. v = O!Undefined BY <1>5, <2>3, <3>3, Zenon DEF ExampleFrom, c
      <4>2. c + 2 > MAX_DEPTH BY <1>1, <1>5, <3>3
      <4>3. F = {} BY <3>1, <4>2, Zenon DEF FittingFrom, c
      <4> QED BY <4>1, <4>3, NeitherIsOther, Zenon DEF Suits
    <3>4. CASE ~O!Loops(s) /\ ~(O!Cardinality(on) >= MAX_DEPTH)
      <4>1. v = O!Built(s, mode, merged) BY <1>5, <2>3, <3>4, Zenon DEF ExampleFrom, c
      <4>2. ~(c + 2 > MAX_DEPTH) BY <1>1, <1>5, <3>4
      <4>3. F = FittingType(s, O!mergeAllOf[s], mode, fit)
        <5>1. ~d.given /\ d.kind # "oneOf" BY <2>3
        <5> QED BY <1>5, <3>1, <4>2, <5>1, Zenon DEF FittingFrom, c
      <4> QED BY <1>5, <3>1, <4>1, <4>3, BuiltSuits, Zenon
    <3> QED BY <3>2, <3>3, <3>4, Zenon
  <2>4. CASE ~d.given /\ d.kind # "allOf"
    <3>1. ~IsMerged(s) BY <2>4, Zenon DEF IsMerged
    <3>2. CASE d.kind = "oneOf" /\ d.to # <<>>
      <4>1. v = below[d.to[1]] BY <1>5, <2>4, <3>2, Zenon DEF ExampleFrom, c
      <4>2. F = fit[d.to[1]] BY <1>5, <2>1, <2>4, <3>1, <3>2, Zenon DEF FittingFrom, c
      <4> QED BY <1>2, <1>5, <3>1, <3>2, <4>1, <4>2, Zenon
    <3>3. CASE ~(d.kind = "oneOf" /\ d.to # <<>>)
      <4>1. v = O!Built(s, mode, below) BY <1>5, <2>4, <3>3, Zenon DEF ExampleFrom, c
      <4>2. F = FittingType(s, O!mergeAllOf[s], mode, fit)
        BY <1>5, <2>1, <2>4, <3>1, <3>3, Zenon DEF FittingFrom, c
      <4> QED BY <1>5, <3>1, <4>1, <4>2, BuiltSuits, Zenon
    <3> QED BY <3>2, <3>3, Zenon
  <2> QED BY <2>2, <2>3, <2>4, Zenon
<1> QED BY <1>3, <1>4, <1>5, Zenon

SuitsAt(p) ==
    \A mode \in O!Modes, n \in Name : Suits(O!exampleFromSchema[p][mode][n], O!Fitting[p][mode][n])
\* So it does on every path.
LEMMA ExamplesSuit ==
    ASSUME DocumentTyped, NEW p \in SUBSET Places
    PROVE  SuitsAt(p)
<1> DEFINE X == SUBSET Places
           Done == {S \in SUBSET X : \A q \in S : SuitsAt(q)}
           E == O!exampleFromSchema
           G == O!Fitting
<1>1. /\ \A q \in X : E[q] = ExamplesFrom(E, q)
      /\ \A q \in X : G[q] = FittingsFrom(G, q)
  <2>1. E = [q \in X |-> ExamplesFrom(E, q)] BY ExampleDefined, PathsEnd, Zenon
  <2>2. G = [q \in X |-> FittingsFrom(G, q)] BY FittingDefined, PathsEnd, Zenon
  <2> HIDE DEF E, G
  <2>3. \A q \in X : E[q] = ExamplesFrom(E, q) BY <2>1, Zenon
  <2>4. \A q \in X : G[q] = FittingsFrom(G, q) BY <2>2, Zenon
  <2> QED BY <2>3, <2>4
<1>2. ASSUME NEW S \in Done, NEW S2 \in SUBSET X, S \subseteq S2,
             \A m \in S2 : Supersets(Places)[m] \subseteq S
      PROVE  S2 \in Done
  <2>1. ASSUME NEW q \in S2, NEW mode \in O!Modes, NEW n \in Name
        PROVE  Suits(E[q][mode][n], G[q][mode][n])
    <3> DEFINE s == O!resolveRef(n)
               below == E[Through(q, s)][mode]
               merged == E[Joining(q, s)][mode]
               fit == G[Way(q, s)][mode]
    <3>1. E[q][mode][n] = ExampleFrom(q, mode, s, below, merged)
      <4>1. ExamplesFrom(E, q)[mode][n] = ExampleFrom(q, mode, s, below, merged)
        BY Zenon DEF ExamplesFrom
      <4> HIDE DEF E
      <4>2. E[q] = ExamplesFrom(E, q) BY <1>1, Zenon
      <4> QED BY <4>1, <4>2, Zenon
    <3>2. G[q][mode][n] = FittingFrom(q, mode, s, fit)
      <4>1. FittingsFrom(G, q)[mode][n] = FittingFrom(q, mode, s, fit) BY Zenon DEF FittingsFrom
      <4> HIDE DEF G
      <4>2. G[q] = FittingsFrom(G, q) BY <1>1, Zenon
      <4> QED BY <4>1, <4>2, Zenon
    <3>3. s \in Name BY Resolved
    <3> HIDE DEF s
    <3>4. <<s, "schema">> \notin q => SuitsAt(Through(q, s)) /\ SuitsAt(Joining(q, s))
      BY <1>2, <3>3, WaysGrow
    <3>5. <<s, "schema">> \notin q /\ IsMerged(s) => \A m \in Name : Suits(merged[m], fit[m])
      BY <3>4, WayIs, Zenon DEF SuitsAt
    <3>6. <<s, "schema">> \notin q /\ ~IsMerged(s) => \A m \in Name : Suits(below[m], fit[m])
      BY <3>4, WayIs, Zenon DEF SuitsAt
    <3>7. DOMAIN fit = Name
      <4>1. Way(q, s) \in X BY <3>3 DEF Way, Places
      <4>2. G[Way(q, s)] = FittingsFrom(G, Way(q, s)) BY <1>1, <4>1, Zenon
      <4> QED BY <4>2, Zenon DEF FittingsFrom
    <3> HIDE DEF E, G, below, merged, fit
    <3>8. Suits(ExampleFrom(q, mode, s, below, merged), FittingFrom(q, mode, s, fit))
      BY <3>3, <3>5, <3>6, <3>7, SuitsHere, Zenon
    <3> QED BY <3>1, <3>2, <3>8, Zenon
  <2>2. \A q \in S2 : SuitsAt(q) BY <2>1, Zenon DEF SuitsAt
  <2> QED BY <2>2, Zenon
<1>3. X \in Done
  <2>1. {} \in Done OBVIOUS
  <2> HIDE DEF Done
  <2>2. Spreads(X, Supersets(Places), Done) BY <1>2, <2>1, Zenon DEF Spreads
  <2> QED BY <2>2, PathsEnd, Reached, Zenon
<1> QED BY <1>3, Zenon

\* Examples made of a document fit it.
LEMMA ExamplesFound ==
    ASSUME DocumentTyped,
           reading.done => \A mode \in O!Modes :
               reading.examples[mode] = O!exampleFromSchema[{}][mode][Root]
    PROVE  O!ExamplesFit
<1> SUFFICES ASSUME reading.done, NEW mode \in O!Modes
             PROVE  LET example == reading.examples[mode]
                        fitting == O!Fitting[{}][mode][Root]
                    IN  CASE example = O!Overflow -> \E n \in Name : O!Loops(n)
                          [] example = O!Undefined -> fitting = {}
                          [] OTHER -> (~\E n \in Name : O!Loops(n)) => example \in fitting
  BY Zenon DEF O!ExamplesFit
<1> DEFINE e == reading.examples[mode]
           F == O!Fitting[{}][mode][Root]
<1>1. e = O!exampleFromSchema[{}][mode][Root] BY Zenon
<1>2. Suits(e, F)
  <2>1. {} \in SUBSET Places OBVIOUS
  <2> QED BY <1>1, <2>1, DocumentConstants, ExamplesSuit, Zenon DEF SuitsAt
<1> HIDE DEF e, F
<1>3. CASE e = O!Overflow BY <1>2, <1>3, Zenon DEF Suits, LoopFree, e, F
<1>4. CASE e = O!Undefined BY <1>2, <1>4, NeitherIsOther, Zenon DEF Suits, e, F
<1>5. CASE e # O!Overflow /\ e # O!Undefined BY <1>2, <1>5, Zenon DEF Suits, LoopFree, e, F
<1> QED BY <1>3, <1>4, <1>5, Zenon

\* What was read: examples of the document.
ExamplesRead ==
    reading.done => \A mode \in O!Modes :
        reading.examples[mode] = O!exampleFromSchema[{}][mode][Root]

\* Built, told the type, the terms and the keys.
BuiltAs(type, d, asked, of) ==
    LET single == IF d.items = <<>> THEN O!Undefined ELSE of[d.items[1]]
    IN  CASE type = "object" ->
                IF \E k \in asked : of[d.properties[k]] = O!Overflow THEN O!Overflow
                ELSE [t |-> "object",
                      v |-> [k \in {j \in asked : of[d.properties[j]] # O!Undefined} |->
                                of[d.properties[k]]]]
          [] type = "array" ->
                IF single = O!Overflow THEN O!Overflow
                ELSE [t |-> "array", v |-> IF single = O!Undefined THEN <<>> ELSE <<single>>]
          [] type = "scalar" -> [t |-> "scalar", v |-> <<>>]
          [] OTHER -> O!Undefined
AskedKeys(d, mode) == {k \in DOMAIN d.properties : ~O!Excluded(d.properties[k], mode)}
\* Examples depend on the schemas alone.
LEMMA ExamplesStay ==
    ASSUME schemas' = schemas
    PROVE  O!exampleFromSchema' = O!exampleFromSchema
<1>1. O!Follow' = O!Follow BY Zenon DEF O!Follow
<1>2. \A n : O!resolveRef(n)' = O!resolveRef(n) BY <1>1, Zenon DEF O!resolveRef
<1>3. \A n : O!Parts(n)' = O!Parts(n) BY <1>2, Zenon DEF O!Parts
<1>4. \A n : O!Loops(n)' = O!Loops(n) BY <1>3, Zenon DEF O!Loops
<1>5. O!mergeAllOf' = O!mergeAllOf
  <2>1. \A g, n : PartsOf(g, n)' = PartsOf(g, n) BY <1>2, Zenon DEF PartsOf
  <2>2. \A g, n : MergeFrom(g, n)' = MergeFrom(g, n) BY <1>4, <2>1, Zenon DEF MergeFrom
  <2>3. \A g : [n \in Name |-> MergeFrom(g, n)'] = [n \in Name |-> MergeFrom(g, n)] BY <2>2, Zenon
  <2>4. O!mergeAllOf = CHOOSE f : f = [n \in Name |-> MergeFrom(f, n)]
    BY Zenon DEF O!mergeAllOf, MergeFrom, OwnTerms, JoinedTerms, PartsOf
  <2>5. O!mergeAllOf' = CHOOSE f : f = [n \in Name |-> MergeFrom(f, n)']
    BY Zenon DEF O!mergeAllOf, MergeFrom, OwnTerms, JoinedTerms, PartsOf
  <2> QED BY <2>3, <2>4, <2>5, Zenon
<1>6. \A n : O!schemaTypes(n)' = O!schemaTypes(n) BY <1>5, Zenon DEF O!schemaTypes
<1>7. \A n, mode : O!Excluded(n, mode)' = O!Excluded(n, mode) BY <1>2, Zenon DEF O!Excluded
<1>8. \A n, mode, of : O!Built(n, mode, of)' = O!Built(n, mode, of)
  <2>1. \A d, mode : AskedKeys(d, mode)' = AskedKeys(d, mode) BY <1>7, Zenon DEF AskedKeys
  <2>2. \A n, mode, of : O!Built(n, mode, of) =
           BuiltAs(O!schemaTypes(n), O!mergeAllOf[n], AskedKeys(O!mergeAllOf[n], mode), of)
    BY Zenon DEF O!Built, BuiltAs, AskedKeys
  <2>3. \A n, mode, of : O!Built(n, mode, of)' =
           BuiltAs(O!schemaTypes(n)', O!mergeAllOf[n]', AskedKeys(O!mergeAllOf[n], mode)', of)
    BY Zenon DEF O!Built, BuiltAs, AskedKeys
  <2>4. \A n, mode : AskedKeys(O!mergeAllOf[n], mode)' = AskedKeys(O!mergeAllOf[n], mode)
    BY <1>5, <1>7, Zenon DEF AskedKeys
  <2> QED BY <1>5, <1>6, <2>2, <2>3, <2>4, Zenon
<1>9. \A path, mode, s, b, m : ExampleFrom(path, mode, s, b, m)' = ExampleFrom(path, mode, s, b, m)
  <2> SUFFICES ASSUME NEW path, NEW mode, NEW s, NEW b, NEW m
               PROVE  ExampleFrom(path, mode, s, b, m)' = ExampleFrom(path, mode, s, b, m)
    OBVIOUS
  <2>1. O!Built(s, mode, b)' = O!Built(s, mode, b) /\ O!Built(s, mode, m)' = O!Built(s, mode, m)
    BY <1>8, Zenon
  <2>2. O!Loops(s)' = O!Loops(s) BY <1>4, Zenon
  <2> QED BY <2>1, <2>2, Zenon DEF ExampleFrom
<1>10. \A g, path : ExamplesFrom(g, path)' = ExamplesFrom(g, path)
  BY <1>2, <1>9, Zenon DEF ExamplesFrom
<1>11. \A g : [path \in O!Path |-> ExamplesFrom(g, path)'] = [path \in O!Path |-> ExamplesFrom(g, path)]
  BY <1>10, Zenon
<1>12. O!exampleFromSchema = CHOOSE f : f = [path \in O!Path |-> ExamplesFrom(f, path)]
  BY Zenon DEF O!exampleFromSchema, ExamplesFrom, ExampleFrom, Through, Joining
<1>13. O!exampleFromSchema' = CHOOSE f : f = [path \in O!Path |-> ExamplesFrom(f, path)']
  BY Zenon DEF O!exampleFromSchema, ExamplesFrom, ExampleFrom, Through, Joining
<1> QED BY <1>11, <1>12, <1>13, Zenon

-----------------------------------------------------------------------------
(* The reading *)

\* The document is one of those the constants describe, and what was read was read of it.
DocumentRead ==
    /\ DocumentTyped /\ ParametersKnown /\ OperationsKnown
    /\ ParametersRead /\ OperationsRead /\ ExamplesRead

LEMMA ReadInitial == PagesInit => DocumentRead
<1> SUFFICES ASSUME O!OaInit \/ O!NoDocument, DocumentTyped PROVE DocumentRead
  BY DocumentInitial, Zenon DEF PagesInit
<1>1. ~reading.done
  <2>1. reading = [done |-> FALSE] BY Zenon DEF O!OaInit, O!NoDocument, O!Unread
  <2> QED BY <2>1
<1>2. shared \in {<<>>} \cup Declared.shared /\ own \in {<<>>} \cup Declared.own
  BY Zenon DEF O!OaInit, O!NoDocument
<1>3. operations \in {{}} \cup Ops /\ swagger2 \in BOOLEAN
  BY Zenon DEF O!OaInit, O!NoDocument
<1>4. ParametersKnown
  <2>1. /\ Declared.shared \cup Declared.own \subseteq Seq(O!Parameter)
        /\ \A o \in Declared.own : \A i \in DOMAIN o : o[i].own
    BY DocumentAssumption, Zenon DEF O!DocumentAssumption
  <2>2. <<>> \in Seq(O!Parameter) /\ \A i \in DOMAIN <<>> : <<>>[i].own OBVIOUS
  <2>3. /\ shared \in Seq(O!Parameter) /\ own \in Seq(O!Parameter)
        /\ own = <<>> \/ own \in Declared.own
    BY <1>2, <2>1, <2>2
  <2>4. \A i \in DOMAIN own : own[i].own BY <2>1, <2>2, <2>3, Zenon
  <2> QED BY <1>3, <2>3, <2>4, Zenon DEF ParametersKnown
<1>5. OperationsKnown
  <2>1. ASSUME operations \in Ops PROVE OperationsKnown
    <3>1. \A ops \in Ops :
             /\ IsFiniteSet(ops) /\ ops \subseteq O!OperationItem
             /\ \A o \in ops : o.tag \in {""} \cup O!Range(TagOrder \o OtherTags)
             /\ \A o, p \in ops : o.path = p.path /\ o.method = p.method => o = p
      BY DocumentAssumption, Zenon DEF O!DocumentAssumption, O!IsFiniteSet, IsFiniteSet
    <3> QED BY <2>1, <3>1, Zenon DEF OperationsKnown
  <2>2. CASE operations = {}
    <3>1. IsFiniteSet(operations) BY <2>2, FS_EmptySet
    <3> QED BY <2>2, <3>1, Zenon DEF OperationsKnown
  <2> QED BY <1>3, <2>1, <2>2, Zenon
<1> QED BY <1>1, <1>4, <1>5, Zenon DEF DocumentRead, ParametersRead, OperationsRead, ExamplesRead

LEMMA ReadPreserved == DocumentRead /\ [O!OaNext]_specVars => DocumentRead'
<1> SUFFICES ASSUME DocumentRead, [O!OaNext]_specVars PROVE DocumentRead' OBVIOUS
<1>1. CASE O!normalizeSpec
  <2>1. UNCHANGED <<schemas, shared, own, operations, swagger2>>
    BY <1>1, Zenon DEF O!normalizeSpec
  <2> DEFINE all == O!mergeParameters(shared, own)
             made == [i \in DOMAIN Asked(all) |-> O!toParameter(Asked(all)[i])]
             body == IF swagger2 THEN O!swagger2Body(all) ELSE O!NoBody
             ops == O!Sorted(operations)
             keys == O!assignKeys(ops)
             first == O!firstOperation(ops)
             examples == [mode \in O!Modes |-> O!exampleFromSchema[{}][mode][Root]]
  <2>2. reading' = [done |-> TRUE, examples |-> examples, parameters |-> made, body |-> body,
                    operations |-> ops, keys |-> keys, first |-> first]
    BY <1>1, Zenon DEF O!normalizeSpec, Asked
  <2> HIDE DEF made, body, ops, keys, first, examples
  <2>3. /\ reading'.examples = examples /\ reading'.parameters = made /\ reading'.body = body
       /\ reading'.operations = ops /\ reading'.keys = keys /\ reading'.first = first
    BY <2>2
  <2>4. ParametersKnown' /\ OperationsKnown'
    BY <2>1, Zenon DEF DocumentRead, ParametersKnown, OperationsKnown
  <2>5. ParametersRead' /\ OperationsRead'
    BY <2>1, <2>3, Zenon DEF ParametersRead, OperationsRead, made, body, ops, keys, first
  <2>6. ExamplesRead' BY <2>1, <2>3, ExamplesStay, Zenon DEF ExamplesRead, examples
  <2>7. DocumentTyped' BY DocumentPreserved, Zenon DEF DocumentRead
  <2> QED BY <2>4, <2>5, <2>6, <2>7, Zenon DEF DocumentRead
<1>2. CASE UNCHANGED specVars
  <2>1. ExamplesRead' BY <1>2, ExamplesStay, Zenon DEF specVars, DocumentRead, ExamplesRead
  <2> QED
    BY <1>2, <2>1, Zenon DEF specVars, DocumentRead, DocumentTyped, ParametersKnown,
                             OperationsKnown, ParametersRead, OperationsRead
<1> QED BY <1>1, <1>2, Zenon DEF O!OaNext

-----------------------------------------------------------------------------
(* The pages *)

\* A step of the pages is, for each of them, one of its steps or none.
LEMMA PageSteps ==
    ASSUME [PagesNext]_pagesVars
    PROVE  /\ page' = page
           /\ [C!Next]_catalogVars /\ [T!Next]_consoleVars /\ [K!SkNext]_shellVars
           /\ [O!OaNext]_specVars
BY Zenon DEF PagesNext, pagesVars

\* Every page keeps its types: the browser's history within its bound, the forms, requests and
\* stores of the console, the positions the keyboard moves to, the schemas of the document.
THEOREM TypesHold == PagesSpec => []TypeOK
<1> DEFINE Inv == page \in Pages /\ CatalogInv /\ ConsoleInv /\ ShellInv /\ DocumentTyped
<1>1. PagesInit => Inv
  <2>1. PagesInit => page \in Pages BY Zenon DEF PagesInit
  <2> QED BY <2>1, CatalogInitial, ConsoleInitial, ShellInitial, DocumentInitial
<1>2. Inv /\ [PagesNext]_pagesVars => Inv'
  BY CatalogPreserved, ConsolePreserved, ShellPreserved, DocumentPreserved, PageSteps
<1>3. Inv => TypeOK
  <2> SUFFICES ASSUME Inv PROVE TypeOK OBVIOUS
  <2>1. C!TypeOK
    <3>1. \A i \in 1..Len(hist) : hist[i] \in Visited
      BY ElementOfSeq DEF CatalogInv, HistTyped
    <3>2. \A i \in 1..Len(hist) : hist[i].page \in {"catalog", "other"}
                                  /\ hist[i].params \in C!Params
      BY <3>1 DEF Visited
    <3>3. {draft, debounced, expandedFor} \subseteq C!Text
      BY Zenon DEF CatalogInv, SearchTyped, BoxTyped
    <3> QED BY <3>2, <3>3, Zenon DEF CatalogInv, HistTyped, SearchTyped, BoxTyped, C!TypeOK
  <2>2. T!TypeOK
    <3>1. {mounted, aborted, sending, wait, saveDetails} \subseteq BOOLEAN
      BY Zenon DEF ConsoleInv, ConsoleTyped
    <3> QED BY <3>1, Zenon DEF ConsoleInv, ConsoleTyped, HistoryTyped, T!TypeOK
  <2>3. K!SkTypeOK
    <3>1. {drawer, help, palette, recentKey, rendered} \subseteq BOOLEAN
      BY Zenon DEF ShellInv, ShellTyped, PageTyped
    <3>2. pending \in SUBSET K!Sequence BY DEF ShellInv, ShellTyped
    <3> QED BY <3>1, <3>2, Zenon DEF ShellInv, ShellTyped, PageTyped, K!SkTypeOK
  <2>4. O!OaTypeOK BY Zenon DEF DocumentTyped, O!OaTypeOK
  <2> QED BY <2>1, <2>2, <2>3, <2>4 DEF TypeOK
<1> QED BY <1>1, <1>2, <1>3, PTL DEF PagesSpec

\* Back does not step through the letters of a search, however the filters, the layout, the
\* browser's history and the search box were used before (GlobalSearch.tsx update).
THEOREM BackSkips == PagesSpec => []BackSkipsLetters
BY CatalogInitial, CatalogPreserved, NoLettersShown, PageSteps, PTL DEF PagesSpec

\* The history tells what was sent: whatever is edited, cancelled or navigated while the answer
\* is awaited, an entry's values passed the checks of a send and it stands under its own
\* operation (TryIt.tsx send, lib/history.ts).
THEOREM HistoryHolds == PagesSpec => []HistoryIsWhatWasSent
<1>1. ConsoleInv => HistoryIsWhatWasSent
  BY Zenon DEF ConsoleInv, HistoryTold, Checked, HistoryIsWhatWasSent, T!HistoryIsWhatWasSent
<1> QED BY <1>1, ConsoleInitial, ConsolePreserved, PageSteps, PTL DEF PagesSpec

\* The console implements Exchange if no two operations have one key: the response on show
\* answers the last request made of the operation on show, and one request is out at a time
\* (TryIt.tsx). With equal keys it does not: the form, and the response on show with it, stay
\* when the other operation is opened.
THEOREM PromiseKept ==
    ASSUME KeysApart
    PROVE  PagesSpec => ConsoleKeepsPromise
<1>1. PagesInit => T!Promise!Init
  BY DEF PagesInit, T!Init, T!Promise!Init
<1>2. ConsoleInv /\ [PagesNext]_pagesVars => ExchangeStep
  BY ConsolePreserved, PageSteps
<1> QED BY <1>1, <1>2, ConsoleInitial, ConsolePreserved, PageSteps, PTL
        DEF PagesSpec, ExchangeStep, ConsoleKeepsPromise, T!ConsoleKeepsPromise, T!Promise!Spec

\* The shell: the palette lists nothing twice and nothing out of the user's reach, its recents
\* are the last items used in any tab, and a sequence leaves the page only by its two keys
\* (lib/shortcuts.ts, CommandPalette.tsx), whatever the catalogue and the texts.
THEOREM ShellHolds == PagesSpec => ShellKeepsWord
<1> DEFINE Inv == ShellInv /\ PaletteInv
<1>1. PagesInit => Inv BY ShellInitial, PaletteInitial
<1>2. Inv /\ [PagesNext]_pagesVars => Inv' /\ BothKeys
  BY ShellPreserved, PalettePreserved, SequenceStep, PageSteps
<1>3. Inv => K!PaletteSound BY PaletteHolds
<1>4. BothKeys => [place' # place /\ ~palette =>
          /\ lastKey.key = "g" /\ lastKey.heard /\ recentKey
          /\ lastKey'.key \in K!Sequence /\ ~K!dialogOpen /\ focus = "page"]_(K!skVars)
  BY Zenon DEF BothKeys
<1> QED BY <1>1, <1>2, <1>3, <1>4, PTL DEF PagesSpec, ShellKeepsWord, K!SequenceNeedsBothKeys

\* Of a specification of any size: its examples end and fit their schemas, however the schemas
\* refer to each other, unless parts of allOf contain themselves (schema.ts exampleFromSchema);
\* every operation has a key of its own and the reference opens on one of the first group with
\* one not deprecated; no parameter is asked for twice or lost, the operation's own one counts,
\* and one of the path is required (normalize.ts normalizeSpec, mergeParameters, assignKeys,
\* firstOperation).
THEOREM DocumentReadRight == PagesSpec => []SpecReadRight
<1>1. DocumentRead => SpecReadRight
  <2>1. DocumentRead => O!KeysFind /\ O!ParametersOnce
    BY OperationsFound, AskedOnce, Zenon DEF DocumentRead
  <2>2. DocumentRead => O!ExamplesFit BY ExamplesFound, Zenon DEF DocumentRead, ExamplesRead
  <2> QED BY <2>1, <2>2, Zenon DEF SpecReadRight
<1> QED BY <1>1, ReadInitial, ReadPreserved, PageSteps, PTL DEF PagesSpec

=============================================================================
