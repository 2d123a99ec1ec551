------------------------------ MODULE ApiWizard ------------------------------
(***************************************************************************)
(* Registering an API: frontend/src/pages/admin/apis/ApiWizard.tsx with    *)
(* form.ts, fields.tsx and SpecPreview.tsx.  Three steps, each checked when *)
(* it is left; a preview of the specification that is fetched while the    *)
(* form goes on being edited; a creation of one or two requests.           *)
(***************************************************************************)
EXTENDS Naturals, Sequences

CONSTANTS Title,    \* what may be typed as a name
          Url,      \* addresses of specifications
          TitleOf,  \* the title of the specification at an address
          SlugOf,   \* the slug made from a name
          WzSteps, WzFaults   \* bounds: clicks and edits, requests that fail

\* What the specifications are like; the module of the sections assumes it.
WizardAssumption == TitleOf \in [Url -> Title]

\* An empty field.
Blank == ""

slugify(n) == IF n = Blank THEN Blank ELSE SlugOf[n]
ByHand == "typed"
Slug == {Blank, ByHand} \cup {SlugOf[n] : n \in Title}

STEPS == <<"source", "access", "review">>

\* The form.  "wrong" holds the groups of other fields that are not acceptable: the base
\* address among the source fields, the limits among the policy.
WzForm == [name: {Blank} \cup Title, slug: Slug, url: {Blank, "malformed"} \cup Url,
           wrong: SUBSET {"source", "policy"}, access: BOOLEAN]
EMPTY_API == [name |-> Blank, slug |-> Blank, url |-> Blank, wrong |-> {"source"}, access |-> FALSE]

VARIABLES
    wzOpen, wzForm, wzStep,  \* wzStep: an index of STEPS
    preview,       \* the address whose specification was fetched, "" for none
    previewedUrl,  \* the address the wizard takes it for
    previews,      \* previews under way: address fetched, address last seen, attached
    wzAsking,      \* "discard the changes?" is asked
    calls,         \* the requests of the creation under way
    sent,          \* the form the creation under way sends
    apis,          \* server: the APIs created, as the forms they came from
    granted,       \* server: those whose access list was written
    raced,         \* history: the address was edited while its preview was under way
    typed,         \* history: the slug was typed by hand
    wzSteps, wzFaults

wzVars == <<wzOpen, wzForm, wzStep, preview, previewedUrl, previews, wzAsking, calls, sent,
            apis, granted, raced, typed, wzSteps, wzFaults>>
previewVars == <<preview, previewedUrl, previews>>
serverVars == <<apis, granted>>
marks == <<raced, typed>>

\* Something is done in the wizard itself: it is open, no question over it.
WzClick == wzSteps < WzSteps /\ wzSteps' = wzSteps + 1
InWizard == WzClick /\ wzOpen /\ ~wzAsking

----------------------------------------------------------------------------
(* form.ts                                                                 *)

validateSource(f) ==
    /\ f.name # Blank /\ f.slug # Blank /\ f.url \in Url /\ "source" \notin f.wrong
validatePolicy(f) == "policy" \notin f.wrong

\* The step may be left.
Passes(f, step) ==
    CASE step = 1 -> validateSource(f) [] step = 2 -> validatePolicy(f) [] step = 3 -> TRUE

\* Mutant of previewCurrent: any preview counts.
previewCurrentAny == preview # Blank

\* The review shows the preview: the form still has the address it was taken for.
previewCurrent == preview # Blank /\ previewedUrl = wzForm.url

----------------------------------------------------------------------------
WzInit ==
    /\ wzOpen = FALSE /\ wzForm = EMPTY_API /\ wzStep = 1
    /\ preview = Blank /\ previewedUrl = Blank /\ previews = {}
    /\ wzAsking = FALSE /\ calls = <<>> /\ sent = EMPTY_API
    /\ apis = {} /\ granted = {} /\ raced = FALSE /\ typed = FALSE
    /\ wzSteps = 0 /\ wzFaults = 0

\* "New API".
WzStart ==
    /\ WzClick /\ ~wzOpen
    /\ wzOpen' = TRUE /\ wzForm' = EMPTY_API /\ wzStep' = 1
    /\ preview' = Blank /\ previewedUrl' = Blank /\ raced' = FALSE /\ typed' = FALSE
    /\ UNCHANGED <<previews, wzAsking, calls, sent, serverVars, wzFaults>>

\* IdentityFields: the slug follows the name until it is edited by hand.
TypeTitle(n) ==
    /\ InWizard /\ wzStep = 1 /\ n # wzForm.name
    /\ wzForm' = [wzForm EXCEPT !.name = n,
                     !.slug = IF @ = slugify(wzForm.name) THEN slugify(n) ELSE @]
    /\ UNCHANGED <<wzOpen, wzStep, previewVars, wzAsking, calls, sent, serverVars, marks, wzFaults>>

TypeSlug(s) ==
    /\ InWizard /\ wzStep = 1 /\ s # wzForm.slug
    /\ wzForm' = [wzForm EXCEPT !.slug = s] /\ typed' = TRUE
    /\ UNCHANGED <<wzOpen, wzStep, previewVars, wzAsking, calls, sent, serverVars, raced, wzFaults>>

\* UrlFields: a preview under way sees the new address.
TypeUrl(u) ==
    /\ InWizard /\ wzStep = 1 /\ u # wzForm.url
    /\ wzForm' = [wzForm EXCEPT !.url = u]
    /\ previews' = {IF p.attached THEN [p EXCEPT !.seen = u] ELSE p : p \in previews}
    /\ raced' = (raced \/ \E p \in previews : p.attached)
    /\ UNCHANGED <<wzOpen, wzStep, preview, previewedUrl, wzAsking, calls, sent, serverVars,
                   typed, wzFaults>>

\* The other fields of the source.
TypeSource ==
    /\ InWizard /\ wzStep = 1
    /\ wzForm' = [wzForm EXCEPT !.wrong = (@ \ {"source"}) \cup ({"source"} \ @)]
    /\ UNCHANGED <<wzOpen, wzStep, previewVars, wzAsking, calls, sent, serverVars, marks, wzFaults>>

\* OwnershipFields, PolicyFields, HeaderFields.
TypePolicy ==
    /\ InWizard /\ wzStep = 2
    /\ wzForm' = [wzForm EXCEPT !.wrong = (@ \ {"policy"}) \cup ({"policy"} \ @)]
    /\ UNCHANGED <<wzOpen, wzStep, previewVars, wzAsking, calls, sent, serverVars, marks, wzFaults>>

\* AccessFields.
TypeAccess ==
    /\ InWizard /\ wzStep = 2
    /\ wzForm' = [wzForm EXCEPT !.access = ~@]
    /\ UNCHANGED <<wzOpen, wzStep, previewVars, wzAsking, calls, sent, serverVars, marks, wzFaults>>

----------------------------------------------------------------------------
(* SpecPreview.tsx                                                         *)

Preview ==
    /\ InWizard /\ wzStep = 1 /\ wzForm.url # Blank /\ \A p \in previews : ~p.attached
    /\ previews' = previews \cup {[url |-> wzForm.url, seen |-> wzForm.url, attached |-> TRUE]}
    /\ UNCHANGED <<wzOpen, wzForm, wzStep, preview, previewedUrl, wzAsking, calls, sent,
                   serverVars, marks, wzFaults>>

\* Mutant of Adopted: the title replaces the name, and the slug stays behind.
AdoptedName(f, p) ==
    IF p.attached /\ f.name = Blank THEN [f EXCEPT !.name = TitleOf[p.url]] ELSE f

\* A form without a name takes the title; a slug typed before stays.
Adopted(f, p) ==
    IF p.attached /\ f.name = Blank
    THEN [f EXCEPT !.name = TitleOf[p.url], !.slug = IF @ = Blank THEN slugify(TitleOf[p.url]) ELSE @]
    ELSE f

\* The answer is recorded under the address the form has by then.
PreviewAnswer(p) ==
    /\ \/ p.url \in Url /\ preview' = p.url /\ wzForm' = Adopted(wzForm, p) /\ UNCHANGED wzFaults
       \/ /\ p.url \in Url => wzFaults < WzFaults /\ wzFaults' = wzFaults + 1
          /\ p.url \notin Url => UNCHANGED wzFaults
          /\ preview' = Blank /\ UNCHANGED wzForm
    /\ previewedUrl' = p.seen /\ previews' = previews \ {p}
    /\ UNCHANGED <<wzOpen, wzStep, wzAsking, calls, sent, serverVars, marks, wzSteps>>

----------------------------------------------------------------------------
(* The steps                                                               *)

\* Leaving the first step takes the preview's button, not its request, away.
Detached == {[p EXCEPT !.attached = FALSE] : p \in previews}

\* Mutant of next: the limits of the second step are left to the server.
nextUnchecked ==
    /\ InWizard /\ calls = <<>>
    /\ wzStep = 1 => validateSource(wzForm)
    /\ IF wzStep < 3
       THEN wzStep' = wzStep + 1 /\ previews' = Detached /\ UNCHANGED <<calls, sent>>
       ELSE /\ calls' = IF wzForm.access THEN <<"create", "access">> ELSE <<"create">>
            /\ sent' = wzForm /\ UNCHANGED <<wzStep, previews>>
    /\ UNCHANGED <<wzOpen, wzForm, preview, previewedUrl, wzAsking, serverVars, marks, wzFaults>>

\* Next, and Create on the last step.  A step that does not pass stays, with its errors.
next ==
    /\ InWizard /\ calls = <<>> /\ Passes(wzForm, wzStep)
    /\ IF wzStep < Len(STEPS)
       THEN wzStep' = wzStep + 1 /\ previews' = Detached /\ UNCHANGED <<calls, sent>>
       ELSE /\ calls' = IF wzForm.access THEN <<"create", "access">> ELSE <<"create">>
            /\ sent' = wzForm /\ UNCHANGED <<wzStep, previews>>
    /\ UNCHANGED <<wzOpen, wzForm, preview, previewedUrl, wzAsking, serverVars, marks, wzFaults>>

WzBack ==
    /\ InWizard /\ wzStep > 1
    /\ wzStep' = wzStep - 1
    /\ UNCHANGED <<wzOpen, wzForm, previewVars, wzAsking, calls, sent, serverVars, marks, wzFaults>>

WzLeave ==
    /\ wzOpen' = FALSE /\ wzAsking' = FALSE
    /\ wzForm' = EMPTY_API /\ wzStep' = 1 /\ preview' = Blank /\ previewedUrl' = Blank /\ previews' = {}
    /\ UNCHANGED <<raced, typed>>

\* External: a slug is the name of one API only.
Free == \A a \in apis : a.slug # sent.slug

\* A request of the creation is answered; the last one closes the wizard.
Created ==
    /\ calls # <<>> /\ (Head(calls) = "create" => Free)
    /\ apis' = apis \cup {sent}
    /\ granted' = IF Head(calls) = "access" THEN granted \cup {sent} ELSE granted
    /\ calls' = Tail(calls)
    /\ IF Tail(calls) = <<>> THEN WzLeave ELSE UNCHANGED <<wzOpen, wzForm, wzStep, previewVars,
                                                        wzAsking, marks>>
    /\ UNCHANGED <<sent, wzSteps, wzFaults>>

\* A request is refused or lost; the wizard stays, and Create starts over.
CreateFailed ==
    /\ calls # <<>> /\ calls' = <<>>
    /\ \/ Head(calls) = "create" /\ ~Free /\ UNCHANGED wzFaults
       \/ wzFaults < WzFaults /\ wzFaults' = wzFaults + 1
    /\ UNCHANGED <<wzOpen, wzForm, wzStep, previewVars, wzAsking, sent, serverVars, marks, wzSteps>>

\* Closing asks when something was filled in.
WzClose ==
    /\ InWizard
    /\ IF wzForm # EMPTY_API
       THEN wzAsking' = TRUE /\ UNCHANGED <<wzOpen, wzForm, wzStep, previewVars, marks>>
       ELSE WzLeave
    /\ UNCHANGED <<calls, sent, serverVars, wzFaults>>

WzAnswer(discard) ==
    /\ WzClick /\ wzAsking
    /\ IF discard THEN WzLeave
       ELSE wzAsking' = FALSE /\ UNCHANGED <<wzOpen, wzForm, wzStep, previewVars, marks>>
    /\ UNCHANGED <<calls, sent, serverVars, wzFaults>>

WzNext ==
    \/ WzStart \/ \E n \in Title \cup {Blank} : TypeTitle(n)
    \/ \E s \in {Blank, ByHand} : TypeSlug(s)
    \/ \E u \in Url \cup {Blank, "malformed"} : TypeUrl(u)
    \/ TypeSource \/ TypePolicy \/ TypeAccess
    \/ Preview \/ \E p \in previews : PreviewAnswer(p)
    \/ next \/ WzBack \/ Created \/ CreateFailed
    \/ WzClose \/ \E d \in BOOLEAN : WzAnswer(d)

----------------------------------------------------------------------------
WzTypeOK ==
    /\ wzForm \in WzForm /\ wzStep \in 1..Len(STEPS) /\ calls \in Seq({"create", "access"})
    /\ preview \in Url \cup {Blank} /\ previewedUrl \in Url \cup {Blank, "malformed"}
    /\ \A p \in previews : p.url # Blank /\ (p.attached => wzStep = 1 /\ p.seen = wzForm.url)
    /\ apis \subseteq WzForm /\ granted \subseteq apis

\* What the review shows is what is created: the specification on show is the one at the
\* form's address, unless that address was edited while its preview was under way.
ReviewMatches == wzStep = 3 /\ previewCurrent /\ ~raced => preview = wzForm.url

\* Whatever was gone back to and edited, previewed late or retried, an API is created only
\* from a form that both steps accept (validateSource, validatePolicy).
CreatedWasValid == \A a \in apis : validateSource(a) /\ validatePolicy(a)

\* "A new API's slug follows its name until the slug is edited by hand": also when the name
\* comes from a preview (fields.tsx:34).
SlugFollows == ~typed => wzForm.slug = slugify(wzForm.name)

=============================================================================
