-------------------------- MODULE ApprovalPromise --------------------------
(***************************************************************************)
(* What the approval of a run promises, whatever coroutines, polls and     *)
(* lost answers bring it about: a run is released once, for a reason a     *)
(* person gave, nothing is posted unreleased, and Kachu+ claims a verdict  *)
(* only while it is the run's verdict.  Approvals implements it.           *)
(***************************************************************************)
CONSTANTS Runs, Drafts

VARIABLES
    verdict,   \* what was decided of the run
    content,   \* what is posted if the run is released
    source,    \* who decided
    wanted,    \* contents a person approved or scheduled
    due,       \* runs whose scheduled time came
    posted,    \* runs a provider has the content of
    claim      \* what Kachu+ says of the run

vars == <<verdict, content, source, wanted, due, posted, claim>>

Init ==
    /\ verdict = [r \in Runs |-> "none"]
    /\ content \in [Runs -> Drafts]
    /\ source = [r \in Runs |-> "nobody"]
    /\ wanted = [r \in Runs |-> {}]
    /\ due = {} /\ posted = {}
    /\ claim = [r \in Runs |-> "open"]

Ask(r) ==
    /\ verdict[r] = "none"
    /\ verdict' = [verdict EXCEPT ![r] = "waiting"]
    /\ UNCHANGED <<content, source, wanted, due, posted, claim>>

\* A person approves a content; whether that is in time is another matter.
Approve(r, d) ==
    /\ wanted' = [wanted EXCEPT ![r] = @ \cup {d}]
    /\ UNCHANGED <<verdict, content, source, due, posted, claim>>

\* A person confirms a time for a content, which may have passed already.
Schedule(r, d) ==
    /\ wanted' = [wanted EXCEPT ![r] = @ \cup {d}]
    /\ due' \in {due, due \cup {r}}
    /\ claim' = [claim EXCEPT ![r] = "open"]
    /\ UNCHANGED <<verdict, content, source, posted>>

TimeComes(r) ==
    /\ wanted[r] # {}
    /\ due' = due \cup {r}
    /\ UNCHANGED <<verdict, content, source, wanted, posted, claim>>

Decide(r, v, s) ==
    /\ verdict[r] = "waiting"
    /\ verdict' = [verdict EXCEPT ![r] = v]
    /\ source' = [source EXCEPT ![r] = s]
    /\ UNCHANGED <<wanted, due, posted, claim>>

\* The schedule vouches for the time only: what it releases is the row's text.
Release(r, d) ==
    /\ \/ d \in wanted[r] /\ Decide(r, "approved", "person")
       \/ r \in due /\ Decide(r, "approved", "schedule")
       \/ d = content[r] /\ Decide(r, "approved", "operator")
    /\ content' = [content EXCEPT ![r] = d]

Refuse(r) ==
    /\ \E s \in {"person", "operator"} : Decide(r, "rejected", s)
    /\ UNCHANGED content

Expire(r) ==
    /\ Decide(r, "timed_out", source[r])
    /\ UNCHANGED content

\* A post that half fails leaves the run open to see.
Post(r) ==
    /\ verdict[r] = "approved"
    /\ posted' = posted \cup {r}
    /\ claim' \in {claim, [claim EXCEPT ![r] = "open"]}
    /\ UNCHANGED <<verdict, content, source, wanted, due>>

Claim(r, c) ==
    /\ \/ c = "open"
       \/ c \in {"approved", "rejected"} /\ verdict[r] = c
       \/ c = "published" /\ r \in posted
    /\ claim' = [claim EXCEPT ![r] = c]
    /\ UNCHANGED <<verdict, content, source, wanted, due, posted>>

Next ==
    \E r \in Runs :
        \/ Ask(r) \/ TimeComes(r) \/ Refuse(r) \/ Expire(r) \/ Post(r)
        \/ \E d \in Drafts : Approve(r, d) \/ Schedule(r, d) \/ Release(r, d)
        \/ \E c \in {"open", "approved", "rejected", "published"} : Claim(r, c)

Spec == Init /\ [][Next]_vars
=============================================================================
