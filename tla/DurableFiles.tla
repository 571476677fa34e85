---------------------------- MODULE DurableFiles ----------------------------
(***************************************************************************)
(* What a log file system promises: files that are created and appended    *)
(* to, one operation at a time.  An operation that was acknowledged        *)
(* survives every crash; one that failed, or was cut short, is recovered   *)
(* entirely or not at all.  The promise ends (intact = FALSE) once the     *)
(* store has been damaged.                                                 *)
(***************************************************************************)
EXTENDS Sequences

CONSTANTS Names, Payloads

VARIABLES
  view,    \* the acknowledged contents: name -> sequence of bytes
  cur,     \* the operation in progress, or NoOp
  maybe,   \* contents that operations without an acknowledgement may have left
  up,      \* the file system is mounted
  intact   \* recovery can be relied upon

dvars == <<view, cur, maybe, up, intact>>

NoOp == [kind |-> "none"]
CreateOp(n) == [kind |-> "create", name |-> n]
AppendOp(n, d) == [kind |-> "append", name |-> n, data |-> d]

\* The contents after operation op.
Apply(v, op) ==
  CASE op.kind = "create" -> [n \in DOMAIN v \cup {op.name} |-> IF n \in DOMAIN v THEN v[n] ELSE << >>]
    [] op.kind = "append" -> [v EXCEPT ![op.name] = @ \o op.data]
    [] OTHER -> v

Legal(v, op) ==
  \/ \E n \in Names \ DOMAIN v : op = CreateOp(n)
  \/ \E n \in DOMAIN v, d \in Payloads : op = AppendOp(n, d)

DInit ==
  /\ view = << >>
  /\ cur = NoOp
  /\ maybe = {}
  /\ up = FALSE
  /\ intact = TRUE

Begin(op) ==
  /\ up /\ cur = NoOp
  /\ Legal(view, op)
  /\ cur' = op
  /\ UNCHANGED <<view, maybe, up, intact>>

Ack ==
  /\ cur # NoOp
  /\ view' = Apply(view, cur)
  /\ cur' = NoOp
  /\ maybe' = {}
  /\ UNCHANGED <<up, intact>>

\* The operation is refused, but its effect may show after a restart.
Fail ==
  /\ cur # NoOp
  /\ cur' = NoOp
  /\ maybe' = maybe \cup {Apply(view, cur)}
  /\ intact' \in {intact, FALSE}
  /\ UNCHANGED <<view, up>>

Crash ==
  /\ up' = FALSE
  /\ cur' = NoOp
  /\ maybe' = maybe \cup {Apply(view, cur)}
  /\ UNCHANGED <<view, intact>>

Recover ==
  /\ ~up
  /\ up' = TRUE
  /\ maybe' = {}
  /\ intact' \in {intact, FALSE}
  /\ intact' => view' \in {view} \cup maybe
  /\ UNCHANGED cur

DNext ==
  \/ \E n \in Names : Begin(CreateOp(n))
  \/ \E n \in Names, d \in Payloads : Begin(AppendOp(n, d))
  \/ Ack \/ Fail \/ Crash \/ Recover

DSpec == DInit /\ [][DNext]_dvars

=============================================================================
