------------------------------ MODULE CondStore ------------------------------
(***************************************************************************)
(* What the server's file API promises its clients: a conditional PUT, a   *)
(* conditional DELETE and a reconciliation each take effect on the file at *)
(* one moment between the call and the answer, with the precondition       *)
(* judged on the content of that moment.  FsStore, the handlers with their *)
(* locks and their cache of hashes, is shown to implement this; SpaceSync  *)
(* relies on it when it treats a request as one step.                      *)
(*                                                                         *)
(* A hash is the content it is the hash of.                                *)
(***************************************************************************)
CONSTANTS
    Paths,          \* the files of a space
    Contents,       \* what a file may contain
    Clients,        \* slots for requests in flight
    Offered,        \* the requests that clients send: [op, path, ifMatch, ifNone,
                    \* base, body], with op one of put, delete and reconcile
    None,           \* no file, no header, no request
    Star,           \* the header value "*"
    Unmergeable,    \* contents with conflict markers or that aren't text
    Merge(_, _, _)  \* the three-way merge of base, proposed and current;
                    \* None when it has too many conflicts

\* An answer: its status and the revision it reports, if any.
Statuses == {"ok", "precondition", "missing", "conflict", "retry"}
Answers == [status : Statuses, hash : Contents \cup {None}]

Answer(status, hash) == [status |-> status, hash |-> hash]

VARIABLES
    file,   \* the content of each path, or None
    call    \* per client: [state, req, ans]

vars == <<file, call>>

Idle == [state |-> "idle", req |-> None, ans |-> None]

Init ==
    /\ file \in [Paths -> Contents \cup {None}]
    /\ call = [c \in Clients |-> Idle]

\* Whether the headers of request r hold of content f.
Holds(r, f) ==
    /\ r.ifNone => f = None
    /\ \/ r.ifMatch = None
       \/ r.ifMatch = Star /\ f # None
       \/ r.ifMatch = f

\* The outcomes of request r on content f: the new content and the answer.
Put(r, f) ==
    IF Holds(r, f) THEN {<<r.body, Answer("ok", r.body)>>}
    ELSE {<<f, Answer("precondition", h)>> : h \in {f, None}}

Delete(r, f) ==
    IF ~Holds(r, f) THEN {<<f, Answer("precondition", h)>> : h \in {f, None}}
    ELSE IF f = None THEN {<<f, Answer("missing", None)>>}
    ELSE {<<None, Answer("ok", None)>>}

Reconcile(r, f) ==
    IF {r.base, r.body} \cap Unmergeable # {} THEN {<<f, Answer("conflict", None)>>}
    ELSE (IF f = None THEN {} ELSE {<<f, Answer("retry", f)>>}) \cup
         IF f \in {None, r.body, r.base} THEN {<<r.body, Answer("ok", r.body)>>}
         ELSE LET m == Merge(r.base, r.body, f)
              IN  IF f \in Unmergeable \/ m = None THEN {<<f, Answer("conflict", None)>>}
                  ELSE {<<m, Answer("ok", m)>>}

Outcomes(r, f) ==
    CASE r.op = "put" -> Put(r, f)
      [] r.op = "delete" -> Delete(r, f)
      [] r.op = "reconcile" -> Reconcile(r, f)

\* A client sends a request.
Call(c, r) ==
    /\ call[c] = Idle
    /\ call' = [call EXCEPT ![c] = [state |-> "called", req |-> r, ans |-> None]]
    /\ UNCHANGED file

\* The request takes effect.
Apply(c) ==
    /\ call[c].state = "called"
    /\ LET r == call[c].req IN
       \E out \in Outcomes(r, file[r.path]) :
          /\ file' = [file EXCEPT ![r.path] = out[1]]
          /\ call' = [call EXCEPT ![c].state = "applied", ![c].ans = out[2]]

\* The client receives the answer.
Return(c) ==
    /\ call[c].state = "applied"
    /\ call' = [call EXCEPT ![c] = Idle]
    /\ UNCHANGED file

\* A program other than the server writes or deletes the file.
Foreign(p, f) ==
    /\ file' = [file EXCEPT ![p] = f]
    /\ UNCHANGED call

Next ==
    \/ \E c \in Clients : Apply(c) \/ Return(c) \/ \E r \in Offered : Call(c, r)
    \/ \E p \in Paths, f \in Contents \cup {None} : Foreign(p, f)

Spec == Init /\ [][Next]_vars
=============================================================================
