------------------------------- MODULE Onboarding -------------------------------
(***************************************************************************)
(* One onboarding session.  Its draft is patched section by section until  *)
(* it is complete, and completing it makes an organization from the draft. *)
(* Every request reads the session and writes it by id in a later          *)
(* statement; a nightly job archives sessions nobody has edited for long.  *)
(* The content of a section is the number of the patch that set it.        *)
(***************************************************************************)
EXTENDS Naturals

CONSTANTS
    Applicants,    \* requests with the session's draft token that can be in progress at once
    Sections,      \* keys of the draft
    Slugs,         \* slugs a new organization may take
    MaxDrafts      \* bound: requests in all

ASSUME OnboardingAssumption == MaxDrafts \in Nat

VARIABLES
    session,       \* the OnboardingSession row
    form,          \* what each request has read
    organizations, \* Organization rows made from the session
    requests,      \* how many requests there were
    accepted       \* history: the draft as the patches answered so far make it, and more below

onboardingVars == <<session, form, organizations, requests, accepted>>

------------------------------------------------------------------------------
Drafts == [Sections -> 0..MaxDrafts]
NoForm == [op |-> "none", section |-> "none", number |-> 0, payload |-> [s \in Sections |-> 0],
           slug |-> "none", draft |-> [s \in Sections |-> 0]]

\* A section that no patch has set makes the draft invalid.
Valid(payload) == \A s \in Sections : payload[s] # 0

\* start: the organization's name is all there is.  accepted.lost: a patch was written
\* over one it had not read; accepted.twice: an organization was made by a request that
\* had read the session before another one was.
OnboardingInit ==
    /\ session = [status |-> "in_progress", payload |-> [s \in Sections |-> 0], recent |-> TRUE]
    /\ form = [a \in Applicants |-> NoForm]
    /\ organizations = {}
    /\ requests = 0
    /\ accepted = [draft |-> [s \in Sections |-> 0], lost |-> FALSE, twice |-> FALSE]

Reads(a, f) ==
    /\ form[a] = NoForm /\ requests < MaxDrafts
    /\ requests' = requests + 1
    /\ form' = [form EXCEPT ![a] = [f EXCEPT !.number = requests + 1, !.payload = session.payload,
                                             !.draft = accepted.draft]]
    /\ UNCHANGED <<session, organizations, accepted>>

\* patchDraft; applyTemplate patches too.
ReadForPatch(a, s) ==
    /\ session.status = "in_progress"
    /\ Reads(a, [NoForm EXCEPT !.op = "patch", !.section = s])

\* Mutant: what the draft holds wins over the patch.
DraftWins(payload, s, n) == IF payload[s] = 0 THEN [payload EXCEPT ![s] = n] ELSE payload
\* mergeDraft
Merged(payload, s, n) == [payload EXCEPT ![s] = n]

\* The write goes by id alone, whatever became of the session.
PatchDraft(a) ==
    /\ form[a].op = "patch"
    /\ LET f == form[a]
       IN /\ session' = [session EXCEPT !.payload = Merged(f.payload, f.section, f.number),
                                        !.recent = TRUE]
          /\ accepted' = [accepted EXCEPT !.draft[f.section] = f.number,
                                          !.lost = @ \/ f.payload # session.payload]
    /\ form' = [form EXCEPT ![a] = NoForm]
    /\ UNCHANGED <<organizations, requests>>

\* Mutant: any session can be completed.
AnyStatus(status) == TRUE
\* An archived session can be completed, a completed one cannot.
CanComplete(status) == status # "completed"

ReadForComplete(a, slug) ==
    /\ CanComplete(session.status) /\ Valid(session.payload)
    /\ Reads(a, [NoForm EXCEPT !.op = "complete", !.slug = slug])

\* The transaction: the slug is free, and the status is not looked at again.
Complete(a) ==
    /\ form[a].op = "complete"
    /\ LET f == form[a]
           taken == \E o \in organizations : o.slug = f.slug
       IN IF taken THEN UNCHANGED <<session, organizations, accepted>>
          ELSE /\ organizations' = organizations \cup
                      {[slug |-> f.slug, payload |-> f.payload, draft |-> f.draft]}
               /\ session' = [session EXCEPT !.status = "completed", !.recent = TRUE]
               /\ accepted' = [accepted EXCEPT
                      !.twice = @ \/ \E b \in Applicants \ {a} : form[b].op = "complete"]
    /\ form' = [form EXCEPT ![a] = NoForm]
    /\ UNCHANGED requests

\* A database error or a crash; a transaction leaves nothing.
DropForm(a) ==
    /\ form[a] # NoForm
    /\ form' = [form EXCEPT ![a] = NoForm]
    /\ UNCHANGED <<session, organizations, requests, accepted>>

\* Nobody has edited the session for 30 days: no request has lasted that long.
GrowsStale ==
    /\ session.recent /\ \A a \in Applicants : form[a] = NoForm
    /\ session' = [session EXCEPT !.recent = FALSE]
    /\ UNCHANGED <<form, organizations, requests, accepted>>

\* cleanupStale
CleanupStale ==
    /\ session.status = "in_progress" /\ ~session.recent
    /\ session' = [session EXCEPT !.status = "archived", !.recent = TRUE]
    /\ UNCHANGED <<form, organizations, requests, accepted>>

OnboardingNext ==
    \/ \E a \in Applicants :
           \/ \E s \in Sections : ReadForPatch(a, s)
           \/ \E slug \in Slugs : ReadForComplete(a, slug)
           \/ PatchDraft(a) \/ Complete(a) \/ DropForm(a)
    \/ GrowsStale \/ CleanupStale

OnboardingSpec == OnboardingInit /\ [][OnboardingNext]_onboardingVars

------------------------------------------------------------------------------
(* Properties *)

\* Every variable holds a value of its type.
OnboardingTypeOK ==
    /\ session \in [status : {"in_progress", "completed", "archived"}, payload : Drafts,
                    recent : BOOLEAN]
    /\ \A a \in Applicants :
           /\ form[a].op \in {"none", "patch", "complete"} /\ form[a].number \in 0..MaxDrafts
           /\ form[a].section \in Sections \cup {"none"} /\ form[a].slug \in Slugs \cup {"none"}
           /\ form[a].payload \in Drafts /\ form[a].draft \in Drafts
    /\ organizations \subseteq [slug : Slugs, payload : Drafts, draft : Drafts]
    /\ requests \in 0..MaxDrafts
    /\ accepted.draft \in Drafts /\ accepted.lost \in BOOLEAN /\ accepted.twice \in BOOLEAN

\* A session makes one organization, unless two completions overlap, and that one holds
\* every patch that was answered before its completion began, unless patches overlap:
\* whether the session was archived, patched behind its completion or retried.
OrganizationFollowsDraft ==
    /\ (\E o, p \in organizations : o # p) => accepted.twice
    /\ \A o \in organizations : o.payload = o.draft \/ accepted.lost
    /\ organizations # {} => session.status = "completed"
=============================================================================
