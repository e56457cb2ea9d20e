----------------------------- MODULE KismetLive -----------------------------
(***************************************************************************)
(* One poll of a Kismet server: three resources requested in order under   *)
(* one deadline, each with bounded retries and backoff, decoded into a     *)
(* snapshot that has every part or does not exist.                         *)
(*                                                                         *)
(* A document is a sequence of entries (the status document has one).  An  *)
(* entry is [key, fields]: the value of its required field (0 when empty)  *)
(* and, for each optional field, "null", "good" or "bad" (of the wrong     *)
(* JSON type or out of range); a field that is left out is not in the      *)
(* domain.                                                                 *)
(***************************************************************************)
EXTENDS Integers, Sequences, FiniteSets, SequencesExt

CONSTANTS Responses,         \* what a server may answer, by resource
          SupportedRelease, MaxEntries, MaxBody, MaxDepth,
          RequestTimeout, MaxRetries, RetryBackoff, MaxTime

VARIABLES pc, path, attempt, elapsed, cancelled, get_started, wake,
          response, snapshot, asked

vars == <<pc, path, attempt, elapsed, cancelled, get_started, wake, response, snapshot, asked>>

Paths == <<"status", "types", "sources">>
Nothing == [status |-> 0]
Refused(error) == [error |-> error]
IsError(x) == "error" \in DOMAIN x

Limits == MaxRetries \in 0..5 /\ RequestTimeout > 0 /\ MaxBody > 0 /\ MaxDepth > 0

AttemptTimeout == Max({1, RequestTimeout \div (MaxRetries + 1)})

Init ==
    /\ Limits
    /\ pc = "attempt" /\ path = 1 /\ attempt = 0
    /\ elapsed = 0 /\ cancelled = FALSE
    /\ get_started = 0 /\ wake = 0 /\ response = Nothing
    /\ snapshot = <<>> /\ asked = <<>>

-----------------------------------------------------------------------------
(* Decoding                                                                *)

\* Why a body is refused, or "ok": a declared length that is too large, an
\* error or an end before the declared length, or too many bytes.
ReadResponseBody(r) ==
    IF r.declared > MaxBody THEN "body_too_large"
    ELSE IF r.io # "end" THEN
      (IF r.sent < r.declared THEN "truncated_body"
       ELSE IF r.io = "timed_out" THEN "deadline_exceeded" ELSE "transport")
    ELSE IF r.sent > MaxBody THEN "body_too_large"
    ELSE IF r.declared # -1 /\ r.declared # r.sent THEN "truncated_body"
    ELSE "ok"

\* A document that was cut short is not JSON, a repeated key is refused.
ParseJson(r) ==
    IF r.sent < r.length THEN "malformed_json"
    ELSE IF r.duplicate_key THEN "duplicate_json_key"
    ELSE IF r.depth > MaxDepth THEN "unsupported_schema"
    ELSE "ok"

EntryDecodes(e) == e.key # 0 /\ \A f \in DOMAIN e.fields : e.fields[f] # "bad"

\* An optional value is unknown when it is absent and when it is null.
Decoded(e) == [key |-> e.key, known |-> {f \in DOMAIN e.fields : e.fields[f] = "good"}]

\* The fields that some entry has, null ones included.
PresentFields(entries) == UNION {DOMAIN entries[i].fields : i \in 1..Len(entries)}

\* The release that a status names: its version, which it must have, and its
\* git revision.  Any pair but the supported one, a missing revision
\* included, is an unsupported version, whatever the other fields hold.
DecodeStatus(entries) ==
    IF entries[1].key = 0 THEN Refused("schema_violation")
    ELSE IF entries[1].key # SupportedRelease THEN Refused("unsupported_version")
    ELSE IF ~ EntryDecodes(entries[1]) THEN Refused("schema_violation")
    ELSE [inventory |-> <<Decoded(entries[1])>>, fields |-> PresentFields(entries)]

\* Datasource types and datasources: sorted by key, and no key twice.
DecodeInventory(entries) ==
    IF Len(entries) > MaxEntries THEN Refused("inventory_limit")
    ELSE IF \E i \in 1..Len(entries) : ~ EntryDecodes(entries[i]) THEN Refused("schema_violation")
    ELSE IF \E i, j \in 1..Len(entries) : i # j /\ entries[i].key = entries[j].key
         THEN Refused("schema_violation")
    ELSE LET sorted == SortSeq(entries, LAMBDA a, b : a.key < b.key)
         IN [inventory |-> [i \in 1..Len(entries) |-> Decoded(sorted[i])],
             fields |-> PresentFields(entries)]

Decode(resource, entries) ==
    IF resource = "status" THEN DecodeStatus(entries) ELSE DecodeInventory(entries)

-----------------------------------------------------------------------------
(* Requests                                                                *)

BudgetLeft == ~ cancelled /\ elapsed < RequestTimeout

End(error) == pc' = error /\ snapshot' = <<>>

\* check_budget: what happens instead of the rest of a step once the user
\* has cancelled or the deadline has passed.
CheckBudget == End(IF cancelled THEN "cancelled" ELSE "deadline_exceeded")

Attempt ==
    /\ pc = "attempt"
    /\ IF BudgetLeft
       THEN /\ pc' = "getting" /\ get_started' = elapsed
            /\ asked' = Append(asked, [path |-> path, at |-> elapsed])
            /\ UNCHANGED snapshot
       ELSE CheckBudget /\ UNCHANGED <<get_started, asked>>
    /\ UNCHANGED <<path, attempt, elapsed, cancelled, wake, response>>

RetryDelay == RetryBackoff * 2^attempt

\* Retry that does not wait.
RetryAtOnce ==
    IF attempt < MaxRetries
    THEN pc' = "attempt" /\ attempt' = attempt + 1 /\ UNCHANGED <<wake, snapshot>>
    ELSE End("retry_exhausted") /\ UNCHANGED <<attempt, wake>>

\* wait_for_retry after a transient failure, or the end of the retries.  The
\* budget was checked after the answer arrived.
Retry ==
    IF attempt < MaxRetries
    THEN /\ pc' = "backoff" /\ attempt' = attempt + 1
         /\ wake' = elapsed + Min({RetryDelay, RequestTimeout - elapsed})
         /\ UNCHANGED snapshot
    ELSE End("retry_exhausted") /\ UNCHANGED <<attempt, wake>>

Transient(status) == status \in {408, 425, 429} \cup 500..599

\* What became of the GET: a response, or how the transport failed.
Outcome(r) ==
    IF r.status \in 200..299 THEN ReadResponseBody(r)
    ELSE IF r.status = 0 THEN r.io ELSE "ok"

\* The whole handling of one answer in request_json.
Handle(r) ==
    LET stop(error) == End(error) /\ UNCHANGED <<attempt, wake>> IN
    IF ~ BudgetLeft THEN CheckBudget /\ UNCHANGED <<attempt, wake>>
    ELSE IF Outcome(r) = "transport" THEN Retry
    ELSE IF Outcome(r) # "ok" THEN stop(Outcome(r))
    ELSE IF r.status \in 200..299
         THEN IF ParseJson(r) # "ok" THEN stop(ParseJson(r))
              ELSE pc' = "parsed" /\ UNCHANGED <<snapshot, attempt, wake>>
    ELSE IF r.status = 401 THEN stop("authentication_required")
    ELSE IF r.status = 403 THEN stop("forbidden")
    ELSE IF r.status \in 300..399 THEN stop("redirect")
    ELSE IF Transient(r.status) THEN Retry
    ELSE stop("http_status")

Answer ==
    /\ pc = "getting"
    /\ \E r \in Responses[Paths[path]] : response' = r /\ Handle(r)
    /\ UNCHANGED <<path, elapsed, cancelled, get_started, asked>>

\* The transport ends a GET that exceeds its own timeout.
GetTimeout ==
    /\ pc = "getting"
    /\ elapsed - get_started >= Min({AttemptTimeout, RequestTimeout - get_started})
    /\ IF BudgetLeft THEN End("deadline_exceeded") ELSE CheckBudget
    /\ UNCHANGED <<path, attempt, elapsed, cancelled, get_started, wake, response, asked>>

\* The backoff polls the cancellation in slices, not the deadline: the next
\* attempt checks that.
Wake ==
    /\ pc = "backoff"
    /\ \/ cancelled /\ End("cancelled")
       \/ elapsed >= wake /\ pc' = "attempt" /\ UNCHANGED snapshot
    /\ UNCHANGED <<path, attempt, elapsed, cancelled, get_started, wake, response, asked>>

\* The end of request_json with its check, the decoder, and the check that
\* follows; after the last resource the poll returns.
DecodePart ==
    /\ pc = "parsed"
    /\ LET part == Decode(Paths[path], response.entries) IN
       IF ~ BudgetLeft THEN CheckBudget /\ UNCHANGED <<path, attempt>>
       ELSE IF IsError(part) THEN End(part.error) /\ UNCHANGED <<path, attempt>>
       ELSE /\ snapshot' = Append(snapshot, part)
            /\ pc' = "decoded" /\ UNCHANGED <<path, attempt>>
    /\ UNCHANGED <<elapsed, cancelled, get_started, wake, response, asked>>

NextPart ==
    /\ pc = "decoded"
    /\ IF ~ BudgetLeft THEN CheckBudget /\ UNCHANGED <<path, attempt>>
       ELSE IF path = 3 THEN pc' = "done" /\ UNCHANGED <<snapshot, path, attempt>>
       ELSE pc' = "attempt" /\ path' = path + 1 /\ attempt' = 0 /\ UNCHANGED snapshot
    /\ UNCHANGED <<elapsed, cancelled, get_started, wake, response, asked>>

Running == pc \in {"attempt", "getting", "backoff", "parsed", "decoded"}

Tick ==
    /\ Running /\ elapsed < MaxTime
    /\ elapsed' = elapsed + 1
    /\ UNCHANGED <<pc, path, attempt, cancelled, get_started, wake, response, snapshot, asked>>

Cancel ==
    /\ Running /\ ~ cancelled
    /\ cancelled' = TRUE
    /\ UNCHANGED <<pc, path, attempt, elapsed, get_started, wake, response, snapshot, asked>>

Next ==
    \/ Attempt \/ Answer \/ GetTimeout \/ Wake \/ DecodePart \/ NextPart \/ Tick \/ Cancel

-----------------------------------------------------------------------------
(* Properties                                                              *)

\* A poll returns all three parts or none of them.  What it returns was
\* decoded from whole bodies, in a form that does not depend on the order in
\* which the server lists its sources; every request was sent before the
\* deadline, at most one more than the retries for each resource, and each
\* retry of a resource came after its backoff.
PollIsWhole ==
    /\ ~ Running => Len(snapshot) = IF pc = "done" THEN 3 ELSE 0
    /\ \A i \in 1..Len(snapshot), j \in 1..3 :
         j < Len(snapshot[i].inventory)
           => snapshot[i].inventory[j].key < snapshot[i].inventory[j + 1].key
    /\ pc \in {"parsed", "decoded", "done"} => response.sent = response.length
    /\ \A i \in 1..Len(asked) :
         /\ asked[i].at < RequestTimeout
         /\ Cardinality({j \in 1..Len(asked) : asked[j].path = asked[i].path}) <= MaxRetries + 1
         /\ \A j \in 1..Len(asked) :
              i < j /\ asked[i].path = asked[j].path => asked[j].at - asked[i].at >= RetryBackoff
=============================================================================
