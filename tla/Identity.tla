------------------------------- MODULE Identity -------------------------------
(***************************************************************************)
(* Accounts of the platform and the Clerk identities that sign in to them: *)
(* onboardRole and onboardStudent (backend/server/onboarding/),            *)
(* linkExternalIdentity (backend/server/actors/) and the webhook that      *)
(* follows changes at Clerk (frontend/app/api/webhooks/clerk/route.ts).    *)
(*                                                                         *)
(* The onboarding runs in serializable transactions, one step each: a      *)
(* conflict fails the whole transaction.  Links and webhooks are not       *)
(* transactions: what they read may have changed when they write.  Events  *)
(* are delivered late, repeatedly and in any order.                        *)
(*                                                                         *)
(* Left out: names, the classroom a student onboards with (Classroom).     *)
(***************************************************************************)
EXTENDS Naturals, FiniteSets

CONSTANTS
  User,       \* ids of accounts
  Subject,    \* Clerk subjects
  Email,
  Handler,    \* onboardings, links and webhooks being handled
  None        \* no user, subject, address or account

VARIABLES
  account,    \* User: its email, role and status; None when there is none
  identity,   \* ExternalIdentity: the user of a subject
  profile,    \* Clerk's side: the verified email of a subject; None when deleted
  event,      \* webhook events sent so far, which may be delivered at any time
  handling    \* what a handler of a request has read

accounts_vars == <<account, identity, profile, event, handling>>

Role == {"TEACHER", "STUDENT"}
Account == [email : Email, role : Role, status : {"ACTIVE", "DISABLED"}]

ASSUME IdentityAssumption == None \notin User \cup Subject \cup Email \cup Account

Event == UNION {[type : {"updated"}, subject : Subject, email : Email],
                [type : {"deleted"}, subject : Subject, email : {None}]}
Free == [pc |-> "idle"]

Accounts == {u \in User : account[u] # None}
SubjectsOf(u) == {s \in Subject : identity[s] = u}
Owner(e) == {u \in Accounts : account[u].email = e}

\* Accounts there may be before the first sign-in, as administrators create them.
AccountsInit ==
  /\ account \in [User -> {None} \cup Account]
  /\ \A u, v \in Accounts : account[u].email = account[v].email => u = v
  /\ \A u \in Accounts : account[u].status = "ACTIVE"
  /\ identity = [s \in Subject |-> None]
  /\ profile \in [Subject -> Email]
  /\ \A s, t \in Subject : profile[s] = profile[t] => s = t
  /\ event = {}
  /\ handling = [q \in Handler |-> Free]

-----------------------------------------------------------------------------
(* Clerk: a user changes the address or is deleted.  No two users have the  *)
(* same verified address.                                                   *)

ClerkChangesEmail(s, e) ==
  /\ profile[s] # None /\ \A t \in Subject : profile[t] # e
  /\ profile' = [profile EXCEPT ![s] = e]
  /\ event' = event \cup {[type |-> "updated", subject |-> s, email |-> e]}
  /\ UNCHANGED <<account, identity, handling>>

ClerkDeletes(s) ==
  /\ profile[s] # None
  /\ profile' = [profile EXCEPT ![s] = None]
  /\ event' = event \cup {[type |-> "deleted", subject |-> s, email |-> None]}
  /\ UNCHANGED <<account, identity, handling>>

-----------------------------------------------------------------------------
(* Onboarding.  A definition with a suffix is a mistake the code could have *)
(* made in place of the one it precedes.                                    *)

Active(e, r) == [email |-> e, role |-> r, status |-> "ACTIVE"]

\* A request with a session of s is answered.
Answers(q, s, ok, u) ==
  handling' = [handling EXCEPT ![q] = [pc |-> "answered", subject |-> s, ok |-> ok, user |-> u]]

\* A new account with its identity.
Creates(q, s, r) ==
  \E u \in User \ Accounts :
    /\ Owner(profile[s]) = {}
    /\ account' = [account EXCEPT ![u] = Active(profile[s], r)]
    /\ identity' = [identity EXCEPT ![s] = u]
    /\ Answers(q, s, TRUE, u)

\* onboardRole, for a subject that has an account: it takes the chosen role.
RoleOfMapped(q, s, r) ==
  LET u == identity[s] IN
  /\ u # None
  /\ IF account[u].status = "DISABLED"
     THEN UNCHANGED account /\ Answers(q, s, FALSE, u)
     ELSE /\ account' = [account EXCEPT ![u].role = r]
          /\ Answers(q, s, TRUE, u)
  /\ UNCHANGED identity

\* onboardRole, for a subject without one whose address has an account: the
\* account moves to the subject.
Enabled(u) == account[u].status = "ACTIVE"

Relinked_Kept(s, u) == [identity EXCEPT ![s] = u]
Relinked(s, u) ==
  [t \in Subject |-> IF t = s THEN u ELSE IF identity[t] = u THEN None ELSE identity[t]]

RoleOfOwner(q, s, r) ==
  /\ identity[s] = None
  /\ \E u \in Owner(profile[s]) :
       IF Enabled(u)
       THEN /\ identity' = Relinked(s, u)
            /\ account' = [account EXCEPT ![u] = Active(profile[s], r)]
            /\ Answers(q, s, TRUE, u)
       ELSE Answers(q, s, FALSE, u) /\ UNCHANGED <<account, identity>>

OnboardRole(q, s, r) ==
  /\ handling[q] = Free /\ profile[s] # None
  /\ \/ RoleOfMapped(q, s, r)
     \/ RoleOfOwner(q, s, r)
     \/ identity[s] = None /\ Creates(q, s, r)
  /\ UNCHANGED <<profile, event>>

\* onboardStudent: a subject that has an account keeps it; an address that has
\* one is refused.
OnboardStudent(q, s) ==
  /\ handling[q] = Free /\ profile[s] # None
  /\ \/ /\ identity[s] # None
        /\ Answers(q, s, account[identity[s]].status = "ACTIVE", identity[s])
        /\ UNCHANGED <<account, identity>>
     \/ identity[s] = None /\ Creates(q, s, "STUDENT")
     \/ /\ identity[s] = None
        /\ \E u \in Owner(profile[s]) : Answers(q, s, FALSE, u)
        /\ UNCHANGED <<account, identity>>
  /\ UNCHANGED <<profile, event>>

-----------------------------------------------------------------------------
(* linkExternalIdentity: the command reads both mappings, then creates one,  *)
(* which the unique indexes allow or refuse.                                *)

LinkReads(q, s, u) ==
  /\ handling[q] = Free
  /\ u \in Accounts /\ identity[s] = None /\ SubjectsOf(u) = {}
  /\ handling' = [handling EXCEPT ![q] = [pc |-> "link", subject |-> s, user |-> u]]
  /\ UNCHANGED <<account, identity, profile, event>>

LinkCreates(q) ==
  LET s == handling[q].subject
      u == handling[q].user
  IN
  /\ handling[q].pc = "link"
  /\ IF identity[s] = None /\ SubjectsOf(u) = {}
     THEN identity' = [identity EXCEPT ![s] = u] /\ Answers(q, s, TRUE, u)
     ELSE UNCHANGED identity /\ Answers(q, s, FALSE, u)
  /\ UNCHANGED <<account, profile, event>>

-----------------------------------------------------------------------------
(* The webhook: the account of the subject is found, then changed.  An event *)
(* about a subject without one is dropped.                                  *)

WebhookReads(q, v) ==
  /\ handling[q] = Free
  /\ v \in event /\ identity[v.subject] # None
  /\ handling' = [handling EXCEPT ![q] = [pc |-> "webhook", event |-> v, user |-> identity[v.subject]]]
  /\ UNCHANGED <<account, identity, profile, event>>

\* user.updated fails when another account has the address.
Followed_Restored(a, v) ==
  IF v.type = "deleted" THEN [a EXCEPT !.status = "DISABLED"]
  ELSE Active(v.email, a.role)
Followed(a, v) ==
  IF v.type = "deleted" THEN [a EXCEPT !.status = "DISABLED"]
  ELSE [a EXCEPT !.email = v.email]

WebhookWrites(q) ==
  LET u == handling[q].user
      v == handling[q].event
  IN
  /\ handling[q].pc = "webhook"
  /\ IF v.type = "updated" /\ Owner(v.email) \ {u} # {}
     THEN UNCHANGED account
     ELSE account' = [account EXCEPT ![u] = Followed(@, v)]
  /\ handling' = [handling EXCEPT ![q] = Free]
  /\ UNCHANGED <<identity, profile, event>>

\* An answered request, or one that fails at an await, is over.
HandlerEnds(q) ==
  /\ handling[q] # Free
  /\ handling' = [handling EXCEPT ![q] = Free]
  /\ UNCHANGED <<account, identity, profile, event>>

-----------------------------------------------------------------------------
AccountsNext ==
  \/ \E s \in Subject : ClerkDeletes(s) \/ \E e \in Email : ClerkChangesEmail(s, e)
  \/ \E q \in Handler :
       \/ \E s \in Subject :
            \/ \E r \in Role : OnboardRole(q, s, r)
            \/ OnboardStudent(q, s)
            \/ \E u \in User : LinkReads(q, s, u)
       \/ \E v \in event : WebhookReads(q, v)
       \/ LinkCreates(q) \/ WebhookWrites(q) \/ HandlerEnds(q)

AccountsSpec == AccountsInit /\ [][AccountsNext]_accounts_vars

-----------------------------------------------------------------------------
Handlings ==
  UNION {{Free},
         [pc : {"answered"}, subject : Subject, ok : BOOLEAN, user : User],
         [pc : {"link"}, subject : Subject, user : User],
         [pc : {"webhook"}, event : Event, user : User]}

AccountsTypeOK ==
  /\ account \in [User -> Account \cup {None}]
  /\ identity \in [Subject -> User \cup {None}]
  /\ profile \in [Subject -> Email \cup {None}]
  /\ event \subseteq Event
  /\ handling \in [Handler -> Handlings]

\* A subject signs in to an account there is, an account has at most one subject,
\* and no two accounts have one address: whatever onboardings, links and late
\* webhooks overlap.
AccountsApart ==
  /\ \A s \in Subject : identity[s] # None => identity[s] \in Accounts
  /\ \A u \in User : Cardinality(SubjectsOf(u)) <= 1
  /\ \A e \in Email : Cardinality(Owner(e)) <= 1

\* What an account is stays: a disabled one is not given back, neither by onboarding
\* again, with a new subject either, nor by an event delivered late; one that had a
\* subject is never left without; and an onboarding is answered with the account
\* its own subject signs in to.
AccountsKept ==
  [][/\ \A u \in Accounts :
          account[u].status = "DISABLED" => account'[u].status = "DISABLED"
     /\ \A u \in User : SubjectsOf(u) # {} => SubjectsOf(u)' # {}
     /\ \A q \in Handler :
          LET r == handling'[q] IN
          r # handling[q] /\ r.pc = "answered" /\ r.ok => identity'[r.subject] = r.user]_accounts_vars
=============================================================================
