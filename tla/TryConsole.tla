------------------------------ MODULE TryConsole ------------------------------
(***************************************************************************)
(* The try-it console of an API's reference page: frontend/src/pages/api/  *)
(* reference/TryIt.tsx on lib/openapi/request.ts and lib/history.ts.  One  *)
(* form for each operation, one request at a time that can be cancelled,   *)
(* the wait a rate limit imposes, and the history kept in this browser.    *)
(***************************************************************************)
EXTENDS Naturals, Sequences, FiniteSets

CONSTANTS Operation,
          Api, ApiOf,   \* the API of an operation
          KeyOf,        \* its key (operationId, or method and path): unique in its API
          Param, In,    \* the parameters of an operation, and where they go
          Required,     \* the ones that must have a value
          Enum,         \* the ones with a list of values
          Locked,       \* headers the portal itself adds
          Given,        \* the values the specification gives as examples or defaults
          Extra,        \* names of headers the user may add
          None,
          HistoryLimit, \* HISTORY_LIMIT, 20 in the code
          MaxSteps      \* bound: edits, sends, clicks and moves

Value == {"", "good", "bad"}           \* "bad" fails the type or enum of its schema
Body == {"", "json", "junk"}           \* "junk" is no JSON
ContentType == {"application/json", "text/plain"}
Values == [Param -> Value]
Request == [op: Operation, values: Values, body: Body, contentType: ContentType,
            headers: SUBSET (Param \cup Extra)]
Details == [values: Values, body: Body]    \* what the history keeps of a request

\* What operations and parameters are like; the modules of the runs assume it.
ConsoleAssumption ==
    /\ ApiOf \in [Operation -> Api]
    /\ DOMAIN KeyOf = Operation
    /\ \A o, p \in Operation : o # p /\ ApiOf[o] = ApiOf[p] => KeyOf[o] # KeyOf[p]
    /\ In \in [Param -> {"path", "query", "header"}]
    /\ UNION {Required, Enum, Locked} \subseteq Param
    /\ Given \in [Param -> {"", "good", "bad"}]
    /\ HistoryLimit \in Nat \ {0} /\ MaxSteps \in Nat
    /\ None \notin Request \cup Details

VARIABLES
    op,           \* the operation of the URL
    mounted,      \* its form is on the page
    visited,      \* operations whose API and specification are cached
    form,         \* values, body, contentType, extra headers
    errors,       \* the problems found last: parameters, "body"
    request,      \* the request under way, or None
    answer,       \* what came back: "none", "ok" or a failure
    aborted,      \* its AbortController fired
    sending,
    result,       \* the request whose response is on show, or None
    failure,      \* the failure on show, or "none"
    wait,         \* the countdown after a 429 is running
    store,        \* localStorage: the history of each operation
    history,      \* the history on show
    saveDetails,  \* localStorage: keep values and bodies
    steps

formVars == <<form, errors>>
callVars == <<request, answer, aborted, sending, result, failure, wait>>
vars == <<op, mounted, visited, form, errors, request, answer, aborted, sending,
          result, failure, wait, store, history, saveDetails, steps>>

\* An entry of the history; details only when they are kept.
Entry(r, keep) ==
    [op |-> r.op,
     details |-> IF keep THEN [values |-> r.values, body |-> r.body] ELSE None]

----------------------------------------------------------------------------
(* lib/openapi/request.ts                                                  *)

\* The example a body starts from, and a parameter's value from the specification.
initialBody(contentType) == IF contentType = "application/json" THEN "json" ELSE ""
parameterDefault(p) == Given[p]

validateParameters(values) ==
    {p \in Param : values[p] = "bad" \/ (values[p] = "" /\ p \in Required)}

\* The body is checked only as JSON.
validate(f) ==
    validateParameters(f.values)
        \cup IF f.contentType = "application/json" /\ f.body = "junk" THEN {"body"} ELSE {}

\* The headers a request carries: header parameters with a value, and the rows added.
requestHeaders(values, extra) ==
    {p \in Param : In[p] = "header" /\ values[p] # ""} \cup extra

\* ParamField: what can be entered for a parameter; a header the portal adds is locked.
ParamField(p) ==
    IF p \in Locked THEN {}
    ELSE IF p \in Enum THEN {"good"} \cup (IF p \in Required THEN {} ELSE {""})
    ELSE Value

\* The failures ProxyFailure tells apart.
Failures == {"network", "policy", "forbidden", "limited", "timeout", "unreachable"}

----------------------------------------------------------------------------

TypeOK ==
    /\ op \in Operation /\ visited \subseteq Operation
    /\ form \in [values: Values, body: Body, contentType: ContentType, extra: SUBSET Extra]
    /\ errors \subseteq Param \cup {"body"}
    /\ {mounted, aborted, sending, wait, saveDetails} \subseteq BOOLEAN
    /\ request \in Request \cup {None} /\ result \in Request \cup {None}
    /\ answer \in Failures \cup {"none", "ok"}
    /\ failure \in Failures \cup {"none"}
    /\ \A o \in Operation : Len(store[o]) <= HistoryLimit
    /\ steps \in 0..MaxSteps

NewForm ==
    [values |-> [p \in Param |-> parameterDefault(p)], body |-> initialBody("application/json"),
     contentType |-> "application/json", extra |-> {}]

Init ==
    /\ op \in Operation /\ visited = {op} /\ mounted = TRUE
    /\ form = NewForm /\ errors = {}
    /\ request = None /\ answer = "none" /\ aborted = FALSE /\ sending = FALSE
    /\ result = None /\ failure = "none" /\ wait = FALSE
    /\ store = [o \in Operation |-> <<>>] /\ history = <<>>
    /\ saveDetails \in BOOLEAN
    /\ steps = 0

Step == steps < MaxSteps /\ steps' = steps + 1

----------------------------------------------------------------------------
(* Which form is on show.                                                  *)

\* A new form: its effects' clean-up aborts the request of the old one.
Mount(o) ==
    /\ form' = NewForm /\ errors' = {}
    /\ request' = None /\ answer' = "none" /\ aborted' = FALSE /\ sending' = FALSE
    /\ result' = None /\ failure' = "none" /\ wait' = FALSE
    /\ history' = store[o]

\* Mutant of Open: the form has no key of its own.
OpenUnkeyed(o, direct) ==
    /\ o # op /\ (direct => o \in visited \/ ApiOf[o] = ApiOf[op]) /\ Step
    /\ op' = o /\ visited' = visited \cup {o}
    /\ IF direct /\ mounted
       THEN UNCHANGED <<mounted, formVars, callVars, history>>
       ELSE Mount(o) /\ mounted' = TRUE
    /\ UNCHANGED <<store, saveDetails>>

\* To another operation: directly (the tree, Back, Forward) the same form stays mounted
\* when the keys are equal; through any other page it is built anew.
Open(o, direct) ==
    /\ o # op /\ (direct => o \in visited \/ ApiOf[o] = ApiOf[op]) /\ Step
    /\ op' = o /\ visited' = visited \cup {o}
    /\ IF direct /\ mounted /\ KeyOf[o] = KeyOf[op]
       THEN UNCHANGED <<mounted, formVars, callVars, history>>
       ELSE Mount(o) /\ mounted' = TRUE
    /\ UNCHANGED <<store, saveDetails>>

\* The console goes (collapsed, the other pane, the right to call withdrawn, try-it switched
\* off, the operation gone from a refreshed specification), and comes back as new.
Hide ==
    /\ mounted /\ Step
    /\ mounted' = FALSE /\ Mount(op)
    /\ UNCHANGED <<op, visited, store, saveDetails>>

Unhide ==
    /\ ~mounted /\ Step
    /\ mounted' = TRUE /\ Mount(op)
    /\ UNCHANGED <<op, visited, store, saveDetails>>

----------------------------------------------------------------------------
(* The form.                                                               *)

Unsent == UNCHANGED <<op, mounted, visited, callVars, store, history, saveDetails>>

\* Typing in a field, and leaving it, which checks the whole form.
Edit(p, v) ==
    /\ mounted /\ v \in ParamField(p) \ {form.values[p]} /\ Step
    /\ form' = [form EXCEPT !.values[p] = v]
    /\ UNCHANGED errors /\ Unsent

Blur(p) ==
    /\ mounted /\ ParamField(p) # {} /\ errors # validate(form) /\ Step
    /\ errors' = validate(form)
    /\ UNCHANGED form /\ Unsent

EditBody(b) ==
    /\ mounted /\ b # form.body /\ Step
    /\ form' = [form EXCEPT !.body = b]
    /\ UNCHANGED errors /\ Unsent

\* Another content type starts again from its example; so does "Reset".
SetContentType(c) ==
    /\ mounted /\ c # form.contentType /\ Step
    /\ form' = [form EXCEPT !.contentType = c, !.body = initialBody(c)]
    /\ UNCHANGED errors /\ Unsent

ToggleHeader(h) ==
    /\ mounted /\ Step
    /\ form' = [form EXCEPT !.extra = IF h \in @ THEN @ \ {h} ELSE @ \cup {h}]
    /\ UNCHANGED errors /\ Unsent

\* "Format": a body that is no JSON only shows its problem.
Format ==
    /\ mounted /\ form.contentType = "application/json" /\ form.body = "junk" /\ errors # validate(form) /\ Step
    /\ errors' = validate(form)
    /\ UNCHANGED form /\ Unsent

----------------------------------------------------------------------------
(* Sending.                                                                *)

Sent == [op |-> op, values |-> form.values, body |-> form.body,
         contentType |-> form.contentType, headers |-> requestHeaders(form.values, form.extra)]

Send ==
    /\ mounted /\ ~sending /\ ~wait /\ Step
    /\ errors' = validate(form)
    /\ IF errors' # {} THEN UNCHANGED <<request, answer, aborted, sending, result, failure>>
       ELSE /\ request' = Sent /\ answer' = "none" /\ aborted' = FALSE
            /\ sending' = TRUE /\ result' = None /\ failure' = "none"
    /\ UNCHANGED <<op, mounted, visited, form, wait, store, history, saveDetails>>

\* The portal and the API behind it answer: a response, a refusal, a rate limit, nothing.
Invoke ==
    /\ request # None /\ answer = "none"
    /\ answer' \in Failures \cup {"ok"}
    /\ UNCHANGED <<op, mounted, visited, formVars, request, aborted, sending, result, failure, wait,
                   store, history, saveDetails, steps>>

Cancel ==
    /\ sending /\ ~aborted /\ Step
    /\ aborted' = TRUE
    /\ UNCHANGED <<op, mounted, visited, formVars, request, answer, sending, result, failure, wait,
                   store, history, saveDetails>>

\* Mutant of addHistory: the form of the moment of the answer is kept.
addHistoryNow(r) ==
    LET entries == <<Entry([r EXCEPT !.values = form.values, !.body = form.body], saveDetails)>>
                     \o store[r.op]
    IN  SubSeq(entries, 1, IF Len(entries) < HistoryLimit THEN Len(entries) ELSE HistoryLimit)

addHistory(r) ==
    LET entries == <<Entry(r, saveDetails)>> \o store[r.op]
    IN  SubSeq(entries, 1, IF Len(entries) < HistoryLimit THEN Len(entries) ELSE HistoryLimit)

\* The rest of send(), after the await.
Answered ==
    /\ request # None /\ answer # "none" /\ ~aborted
    /\ IF answer = "ok"
       THEN /\ result' = request
            /\ store' = [store EXCEPT ![request.op] = addHistory(request)]
            /\ history' = store'[request.op]
            /\ UNCHANGED <<failure, wait>>
       ELSE /\ failure' = answer
            /\ wait' = (wait \/ answer = "limited")
            /\ UNCHANGED <<result, store, history>>
    /\ sending' = FALSE /\ request' = None /\ answer' = "none"
    /\ UNCHANGED <<op, mounted, visited, formVars, aborted, saveDetails, steps>>

\* Mutant of Cancelled: the button stays busy.
CancelledStaysSending ==
    /\ request # None /\ aborted
    /\ request' = None /\ answer' = "none" /\ aborted' = FALSE
    /\ UNCHANGED <<op, mounted, visited, formVars, sending, result, failure, wait, store, history, saveDetails, steps>>

\* fetch() throws AbortError.
Cancelled ==
    /\ request # None /\ aborted
    /\ sending' = FALSE /\ request' = None /\ answer' = "none" /\ aborted' = FALSE
    /\ UNCHANGED <<op, mounted, visited, formVars, result, failure, wait, store, history, saveDetails, steps>>

\* The countdown of the rate limit ends.
WaitOver ==
    /\ wait /\ wait' = FALSE
    /\ UNCHANGED <<op, mounted, visited, formVars, request, answer, aborted, sending, result, failure,
                   store, history, saveDetails, steps>>

----------------------------------------------------------------------------
(* The history.                                                            *)

ToggleDetails ==
    /\ mounted /\ Step /\ saveDetails' = ~saveDetails
    /\ UNCHANGED <<op, mounted, visited, formVars, callVars, store, history>>

ClearHistory ==
    /\ mounted /\ history # <<>> /\ Step
    /\ store' = [store EXCEPT ![op] = <<>>] /\ history' = <<>>
    /\ UNCHANGED <<op, mounted, visited, formVars, callVars, saveDetails>>

\* "Load again": values and body, not the content type or the extra headers.
Restore ==
    /\ mounted /\ \E i \in 1..Len(history) :
         /\ history[i].details # None
         /\ form' = [form EXCEPT !.values = history[i].details.values, !.body = history[i].details.body]
    /\ form' # form /\ Step
    /\ UNCHANGED errors /\ Unsent

----------------------------------------------------------------------------

Fill ==
    \/ \E p \in Param : Blur(p) \/ \E v \in Value : Edit(p, v)
    \/ \E b \in Body : EditBody(b)
    \/ \E c \in ContentType : SetContentType(c)
    \/ \E h \in Extra : ToggleHeader(h)
    \/ Format \/ Restore

Next ==
    \/ \E o \in Operation, direct \in BOOLEAN : Open(o, direct)
    \/ Hide \/ Unhide \/ Fill \/ Send \/ Invoke \/ Cancel \/ Answered \/ Cancelled \/ WaitOver
    \/ ToggleDetails \/ ClearHistory

Spec == Init /\ [][Next]_vars
\* Every call ends: the portal bounds it by the API's timeout, the browser by its own.
Fairness == WF_vars(Invoke) /\ WF_vars(Answered) /\ WF_vars(Cancelled)

----------------------------------------------------------------------------
(* Properties.                                                             *)

\* The console is the exchange its user was promised: whatever is edited, cancelled or
\* navigated while a request is under way, the response on show answers the last request
\* made of the operation on show, and no second request goes out before the first ended.
Promise == INSTANCE Exchange WITH
    place <- op,
    asked <- IF sending THEN request ELSE None,
    shown <- result
ConsoleKeepsPromise == Promise!Spec

\* The history tells what was sent: an entry's values passed the checks of a send, and it
\* stands under its own operation, even when the form was edited while the answer was
\* awaited (send() keeps the values of its own render).
HistoryIsWhatWasSent ==
    \A o \in Operation : \A i \in 1..Len(store[o]) :
        /\ store[o][i].op = o
        /\ store[o][i].details # None => validateParameters(store[o][i].details.values) = {}

\* A request under way ends, by its answer, a failure or the cancel button.
SendingEnds == sending ~> ~sending

=============================================================================
