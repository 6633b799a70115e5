--------------------------- MODULE FetchWithRetry ---------------------------
(***************************************************************************)
(* One request of the ETL with its retries (src/etl/fetchWithRetry.ts), as *)
(* the steps of the loop: a call, which is answered, rejects or times out, *)
(* and the sleep before the next one.  The length of a sleep is left out.  *)
(***************************************************************************)
EXTENDS Naturals

CONSTANTS MaxRetries,  \* bound: the largest --retries
          Answers      \* the answers below 500 that a call may get

ASSUME MaxRetriesAssumption == MaxRetries \in Nat
ASSUME AnswersAssumption    == Answers \cap {"none", "serverError"} = {}

VARIABLES
  retries,  \* of this request
  attempt,  \* the call the loop is at, the first one being 0
  phase,    \* of the request
  answer,   \* the response the request returns
  faults    \* history: its calls that were not answered, or with a 5xx

requestVars == <<retries, attempt, phase, answer, faults>>

RequestInit ==
  /\ retries = 0 /\ attempt = 0 /\ faults = 0
  /\ phase = "off" /\ answer = "none"

Request(n) ==
  /\ retries' = n /\ attempt' = 0 /\ faults' = 0
  /\ phase' = "calling" /\ answer' = "none"

Return(response) ==
  /\ phase' = "returned" /\ answer' = response
  /\ UNCHANGED <<retries, attempt>>

Retry ==
  /\ attempt' = attempt + 1
  /\ phase' = "sleeping"
  /\ UNCHANGED <<retries, answer>>

\* An answer below 500 is returned, also one that is no success.
Answered ==
  /\ phase = "calling"
  /\ \E response \in Answers : Return(response)
  /\ UNCHANGED faults

\* Seeded bug: the last call is retried too.
ServerErrorRetried ==
  /\ phase = "calling"
  /\ IF attempt <= retries THEN Retry ELSE Return("serverError")
  /\ faults' = faults + 1

\* A 5xx is retried, and returned by the last call.
ServerError ==
  /\ phase = "calling"
  /\ IF attempt < retries THEN Retry ELSE Return("serverError")
  /\ faults' = faults + 1

\* Seeded bugs: the last call is counted one too early, or the calls not at all.
RejectedEarly ==
  /\ phase = "calling"
  /\ IF attempt + 1 >= retries
     THEN phase' = "threw" /\ UNCHANGED <<retries, attempt, answer>>
     ELSE Retry
  /\ faults' = faults + 1

RejectedUncounted ==
  /\ phase = "calling"
  /\ phase' = "sleeping"
  /\ UNCHANGED <<retries, attempt, answer, faults>>

\* The call rejects, or its timeout aborts it; the last one throws.
Rejected ==
  /\ phase = "calling"
  /\ IF attempt = retries
     THEN phase' = "threw" /\ UNCHANGED <<retries, attempt, answer>>
     ELSE Retry
  /\ faults' = faults + 1

Slept ==
  /\ phase = "sleeping"
  /\ phase' = "calling"
  /\ UNCHANGED <<retries, attempt, answer, faults>>

RequestStep == Answered \/ ServerError \/ Rejected \/ Slept

RequestTypeOK ==
  /\ retries \in 0..MaxRetries /\ attempt \in 0..MaxRetries /\ faults \in 0..(MaxRetries + 1)
  /\ phase \in {"off", "calling", "sleeping", "returned", "threw"}
  /\ answer \in Answers \cup {"none", "serverError"}

\* A request fails only when all of its calls have failed, the first one and
\* every retry; the first answer below 500 is the one that is returned.
RetriesAreExhausted ==
  /\ phase = "threw" \/ answer = "serverError" => faults = retries + 1
  /\ phase = "returned" /\ answer # "serverError" => faults <= retries

\* The inductive invariant behind it: until the request ends, every call before
\* this one has failed.
RequestInv ==
  /\ RequestTypeOK
  /\ attempt <= retries
  /\ phase \in {"calling", "sleeping"} => faults = attempt /\ answer = "none"
  /\ phase = "returned" /\ answer # "serverError" => faults = attempt
  /\ phase = "threw" \/ answer = "serverError" => faults = retries + 1
=============================================================================
