---------------------------- MODULE OtlpExporter ----------------------------
(***************************************************************************)
(* One export of a batch (exporter.rs): up to MaxRetries attempts, each    *)
(* under a timeout cut to what is left of the caller's deadline, with a    *)
(* backoff that doubles between them, and stdout when they fail.           *)
(*                                                                         *)
(* Time is counted in units that the constants share.  It passes while an  *)
(* attempt or a backoff is under way; what the code computes between two   *)
(* awaits takes none.                                                      *)
(***************************************************************************)
EXTENDS Integers

CONSTANTS
    MaxRetries,      \* MAX_RETRIES
    InitialBackoff,  \* INITIAL_BACKOFF
    MinBudget,       \* MIN_ATTEMPT_BUDGET
    Timeout,         \* ExporterConfig.timeout
    Answers          \* statuses of the collector; 0 stands for no answer at all

ASSUME ExporterAssumption ==
    /\ {MaxRetries, InitialBackoff, MinBudget, Timeout} \subseteq Nat \ {0}
    /\ Answers \subseteq Nat

VARIABLES
    now,       \* Instant::now()
    endpoint,  \* is ExporterConfig.endpoint set?
    export     \* the export: place, attempt, backoff, end of the wait, deadline, result

Results == {"none", "Success", "Fallback", "Summary", "Skipped"}

ExporterTypeOK ==
    /\ now \in Nat /\ endpoint \in BOOLEAN
    /\ export.at \in {"idle", "head", "attempt", "backoff", "done"}
    /\ export.attempt \in 0 .. MaxRetries - 1
    /\ export.result \in Results
    /\ {export.backoff, export.due, export.deadline} \subseteq Nat

Idle == [at |-> "idle", attempt |-> 0, backoff |-> InitialBackoff, due |-> 0,
         deadline |-> 0, result |-> "none"]

\* OtlpExporter::new refuses every protocol but HTTP, so the others are not modelled.
ExporterInit == now = 0 /\ endpoint \in BOOLEAN /\ export = Idle

Waiting == export.at \in {"attempt", "backoff"}

Finished(result) == [export EXCEPT !.at = "done", !.result = result]

-----------------------------------------------------------------------------
\* Without an endpoint the batch is skipped.
Export(deadline) ==
    /\ export.at = "idle"
    /\ export' = IF endpoint
                 THEN [Idle EXCEPT !.at = "head", !.deadline = deadline]
                 ELSE [Idle EXCEPT !.at = "done", !.deadline = deadline, !.result = "Skipped"]

\* emit_to_stdout writes a batch beyond FALLBACK_MAX_BYTES as a summary.
EmitToStdout(large) == IF large THEN "Summary" ELSE "Fallback"

\* saturating_duration_since.
Remaining == IF export.deadline > now THEN export.deadline - now ELSE 0

AttemptTimeout == IF Timeout < Remaining THEN Timeout ELSE Remaining

\* The head of the loop: an attempt that has no useful time is not begun.
BeginAttempt(large) ==
    /\ export.at = "head"
    /\ export' = IF Remaining < MinBudget
                 THEN Finished(EmitToStdout(large))
                 ELSE [export EXCEPT !.at = "attempt", !.due = now + AttemptTimeout]

IsSuccess(status) == status \in 200 .. 299

IsRetryable(status) == status \in {0, 408, 429} \cup 500 .. 599

\* A retry that looks at nothing but the number of attempts.
RetryRegardless == export.attempt + 1 < MaxRetries

MayRetry ==
    /\ export.attempt + 1 < MaxRetries
    /\ now + export.backoff + MinBudget < export.deadline

FailOrRetry(large) ==
    export' = IF MayRetry
              THEN [export EXCEPT !.at = "backoff", !.due = now + export.backoff]
              ELSE Finished(EmitToStdout(large))

\* An answer, or an error of the client, the encoding or the connection.
AttemptAnswered(status, large) ==
    /\ export.at = "attempt"
    /\ IF IsSuccess(status) THEN export' = Finished("Success")
       ELSE IF IsRetryable(status) THEN FailOrRetry(large)
       ELSE export' = Finished(EmitToStdout(large))

AttemptTimesOut(large) ==
    /\ export.at = "attempt" /\ now = export.due
    /\ FailOrRetry(large)

BackoffEnds ==
    /\ export.at = "backoff" /\ now = export.due
    /\ export' = [export EXCEPT !.at = "head", !.attempt = @ + 1, !.backoff = 2 * @]

ExportStep ==
    \/ \E large \in BOOLEAN :
          \/ BeginAttempt(large) \/ AttemptTimesOut(large)
          \/ \E status \in Answers : AttemptAnswered(status, large)
    \/ BackoffEnds
=============================================================================
