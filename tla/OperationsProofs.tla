-------------------------- MODULE OperationsProofs --------------------------
(***************************************************************************)
(* Proofs about Operations: clicks on cards, tool calls and slash commands *)
(* with Idempotency-Keys, for every set of requests, keys, actions, users, *)
(* teams and encryption keys, and every mix of requests.                   *)
(***************************************************************************)
EXTENDS Operations, TLAPS

ActionPcs == {"load", "look", "clear", "insert", "existing", "prepare", "call", "finish"}
ToolPcs == {"tclear", "tinsert", "texisting", "apply", "message", "mark", "beat",
            "insert event", "complete", "release", "effect", "event"}
CommandPcs == {"resolve", "record", "known", "dispatch", "respond"}
DelayedPcs == {"use", "count", "respond"}

\* What a request is about agrees with how far its handler is.
Shape(q) ==
    /\ q.what = None <=> q.pc \in {"idle", "lost"}
    /\ q.what = None => q.ans = "" /\ q.out = "" /\ q.late = FALSE
    /\ q.what # None =>
         \/ q.pc = "done"
         \/ q.what.kind = "click" /\ q.pc \in ActionPcs
         \/ q.what.kind = "tool" /\ q.pc \in ToolPcs
         \/ /\ q.what.kind = "tool" /\ q.pc \in (ActionPcs \cup {"returned"}) \ {"look"}
            /\ q.what.tool = "notifications.invoke_action"
         \/ q.what.kind = "command" /\ q.pc \in CommandPcs
         \/ q.what.kind = "delayed" /\ q.pc \in DelayedPcs
    /\ q.pc = "look" => q.what.op.kind = "mattermost"
    /\ q.pc = "message" => q.what.tool = "messages.publish"
    /\ q.pc = "beat" => q.what.tool = "agents.heartbeat"

\* What a handler carries from one statement to the next.
Carries(q) ==
    /\ q.pc = "finish" => q.out \in {"succeeded", "failed"}
    /\ q.pc = "complete" => q.out \in Results
    /\ q.pc \in {"record", "known", "dispatch"} => q.out \in Team
    /\ q.pc \in {"use", "count", "known", "dispatch", "respond"} =>
         slash[q.what.key] # None

Base == TypeOK /\ \A r \in Request : Shape(req[r]) /\ Carries(req[r])

-----------------------------------------------------------------------------
Key0(r) == req[r].what.key

\* A request that may call the target owns the running row of its key, alone.
Owner ==
    /\ \A r \in Request : Holds(r) => exec[Key0(r)] = Row(r)
    /\ \A r, q \in Request : (Holds(r) /\ Holds(q) /\ Key0(r) = Key0(q)) => r = q

\* The callback of the current row has been sent, or may have been.
Called(k) ==
    \/ exec[k] # None /\ exec[k].status # "running"
    \/ \E r \in Request : HoldsKey(r, k) /\ req[r].pc = "finish"

Calls1(k) ==
    /\ Called(k) => sent[k] <= lost[k] + 1
    /\ ~ Called(k) => sent[k] <= lost[k]

CallsCounted == \A k \in Key : Calls1(k)

\* A success that is recorded, about to be recorded or answered is real.
Did(w) == <<w.key, ActionOf(w)>> \in taken

RowReal(k) == (exec[k] # None /\ exec[k].status = "succeeded") =>
    \E op \in Op : <<k, op>> \in taken /\ exec[k].kind = op.kind /\ exec[k].index = Index(op)

AnswerReal(q) == (q.what # None /\ q.ans = "succeeded") =>
    /\ q.what.kind = "tool" => q.what.tool = "notifications.invoke_action"
    /\ q.what.kind \in {"click", "tool"}
    /\ \/ Did(q.what)
       \/ /\ ActionOf(q.what).kind = "mattermost"
          /\ \E t \in taken : t[2].kind = "mattermost"
                              /\ t[2].attachment = ActionOf(q.what).attachment

PendingReal(q) ==
    /\ (q.pc = "finish" /\ q.out = "succeeded") => Did(q.what)
    /\ (q.pc = "complete" /\ q.out = "succeeded") =>
         q.what.tool = "notifications.invoke_action" /\ Did(q.what)

StoredReal(k) == (tool[k] # None /\ tool[k].result = "succeeded") =>
    tool[k].args.tool = "notifications.invoke_action" /\ Did(tool[k].args)

Real ==
    /\ \A k \in Key : RowReal(k) /\ StoredReal(k)
    /\ \A r \in Request : AnswerReal(req[r]) /\ PendingReal(req[r])

-----------------------------------------------------------------------------
\* A tool call at work owns the running row of its key, alone.
ToolOwner ==
    /\ \A r \in Request : HoldsTool(r) =>
         /\ tool[Key0(r)] # None /\ tool[Key0(r)].args = req[r].what
         /\ tool[Key0(r)].status = "running" /\ ~ tool[Key0(r)].old
    /\ \A r, q \in Request : (HoldsTool(r) /\ HoldsTool(q) /\ Key0(r) = Key0(q)) => r = q
    /\ \A k \in Key : tool[k] # None =>
         /\ tool[k].args.key = k
         /\ tool[k].status = "running" <=> tool[k].result = ""

\* The answer of a call is the stored one, unless a row was lost.
Replayed(r) == (IsTool(r) /\ req[r].ans \in Results) =>
    \/ toolLost[Key0(r)] > 0
    \/ /\ ~ HoldsTool(r)
       /\ tool[Key0(r)] # None /\ tool[Key0(r)].status = "completed"
       /\ tool[Key0(r)].args = req[r].what /\ tool[Key0(r)].result = req[r].ans
    \/ HoldsTool(r)

CaughtAll == ~ enabled => \A r \in Request : (IsTool(r) /\ Live(r)) => r \in caught

-----------------------------------------------------------------------------
(***************************************************************************)
(* Rows, requests and the moves of a handler.                              *)
(***************************************************************************)
\* The leaves are first-order and Zenon's; one that needs arithmetic names SMT.
USE Zenon

\* The absent row is not a row.
LEMMA NoneIsNoRow ==
    /\ None \notin ExecutionRow /\ None \notin InvocationRow /\ None \notin SlashRow
    /\ None \notin [id : Nat, cipher : Seeds]
    /\ None \notin Asked /\ None \notin Seeds
<1>1. DOMAIN None = {"none"}
  BY DEF None
<1>2. \A a \in ExecutionRow : "kind" \in DOMAIN a
  BY DEF ExecutionRow
<1>3. \A a \in InvocationRow : "args" \in DOMAIN a
  BY DEF InvocationRow
<1>4. \A a \in SlashRow : "what" \in DOMAIN a
  BY DEF SlashRow
<1>5. \A a \in [id : Nat, cipher : Seeds] : "id" \in DOMAIN a
  OBVIOUS
<1>6. None \notin Asked /\ None \notin Seeds
  BY ActionAssumptions DEF Asked
<1> QED
  BY <1>1, <1>2, <1>3, <1>4, <1>5, <1>6

\* The fields that a request carries, by its kind.
LEMMA AskedTypes ==
    ASSUME NEW w \in Asked
    PROVE  /\ w.kind \in {"click", "tool", "command", "delayed"} /\ w.key \in Key
           /\ w.kind = "click" => w.op \in Op /\ w.user \in User
           /\ w.kind = "tool" => w \in Calls /\ w.user \in User /\ w.tool \in Tools
           /\ (w.kind = "tool" /\ w.tool = "notifications.invoke_action") =>
                w.args.op \in Op /\ w.args.op.kind = "http"
           /\ w.kind = "command" => w \in Commands
<1>1. w \in UNION Scenarios /\ w.kind \in {"click", "tool", "command", "delayed"}
  BY DEF Asked
<1>2. CASE w.kind = "click"
  <2>1. w \in [kind : {"click"}, key : Key, op : Op, user : User]
    BY <1>1, <1>2, ActionAssumptions
  <2> QED
    BY <1>2, <2>1
<1>3. CASE w.kind = "tool"
  BY <1>1, <1>3, ToolAssumptions DEF Calls
<1>4. CASE w.kind \in {"command", "delayed"}
  BY <1>1, <1>4, SlashAssumptions DEF Commands
<1> QED
  BY <1>1, <1>2, <1>3, <1>4

\* The action of a click, or of a tool call that invokes one.
LEMMA ActionTyped ==
    ASSUME NEW w \in Asked,
           \/ w.kind = "click"
           \/ w.kind = "tool" /\ w.tool = "notifications.invoke_action"
    PROVE  /\ ActionOf(w) \in Op /\ w.user \in User /\ w.key \in Key
           /\ ActionOf(w).kind \in {"http", "mattermost"} /\ Index(ActionOf(w)) \in Nat
           /\ w.kind = "tool" => ActionOf(w).kind = "http"
<1>1. ActionOf(w) \in Op /\ w.user \in User /\ w.key \in Key
      /\ (w.kind = "tool" => ActionOf(w).kind = "http")
  BY AskedTypes DEF ActionOf
<1>2. PICK op \in Op : op = ActionOf(w)
  BY <1>1
<1>3. \/ op \in [kind : {"http"}, index : 0..100]
      \/ op \in [kind : {"mattermost"}, attachment : 0..100, action : 0..100]
  BY ActionAssumptions
<1>4. op.kind \in {"http", "mattermost"} /\ Index(op) \in Nat
  <2>1. CASE op \in [kind : {"http"}, index : 0..100]
    BY <2>1, SMT DEF Index
  <2>2. CASE op \in [kind : {"mattermost"}, attachment : 0..100, action : 0..100]
    <3>1. op.kind = "mattermost" /\ op.attachment \in 0..100 /\ op.action \in 0..100
      BY <2>2
    <3>2. PICK i \in 0..100, j \in 0..100 : i = op.attachment /\ j = op.action
      BY <3>1
    <3>3. Index(op) = 10000 + i * 101 + j
      BY <3>1, <3>2, SMT DEF Index
    <3> QED
      BY <3>1, <3>3, SMT
  <2> QED
    BY <1>3, <2>1, <2>2
<1> QED
  BY <1>1, <1>2, <1>4

\* The state of request r is replaced and nothing else in req.
Others(r) ==
    /\ req' \in [Request -> RequestState]
    /\ \A q \in Request : q # r => req'[q] = req[q]

Moved(r, what, pc, seen, late, out, ans) ==
    /\ Others(r)
    /\ req'[r].what = what /\ req'[r].pc = pc /\ req'[r].seen = seen
    /\ req'[r].late = late /\ req'[r].out = out /\ req'[r].ans = ans

\* The types of a request's fields.
LEMMA RequestFields ==
    ASSUME TypeOK, NEW r \in Request
    PROVE  /\ req \in [Request -> RequestState] /\ req[r] \in RequestState
           /\ req[r].what \in Asked \cup {None} /\ req[r].pc \in PCs /\ req[r].seen \in Nat
           /\ req[r].late \in BOOLEAN /\ req[r].out \in Outs
           /\ req[r].ans \in Answers
<1>1. req \in [Request -> RequestState] /\ req[r] \in RequestState
  BY DEF TypeOK, ActionTypes
<1> QED
  BY <1>1 DEF RequestState

\* A number that a request remembers.
LEMMA SeenTyped ==
    ASSUME NEW f \in [Request -> RequestState], NEW r \in Request, NEW n \in Nat
    PROVE  [f EXCEPT ![r].seen = n] \in [Request -> RequestState]
BY DEF RequestState

\* Step changes how far a handler is.
LEMMA StepMoves ==
    ASSUME TypeOK, NEW r \in Request, NEW pc \in PCs, Step(r, pc)
    PROVE  Moved(r, req[r].what, pc, req[r].seen, req[r].late, req[r].out, req[r].ans)
<1>1. req \in [Request -> RequestState] /\ req' = [req EXCEPT ![r].pc = pc]
  BY RequestFields DEF Step
<1>2. req' \in [Request -> RequestState]
  BY <1>1 DEF RequestState
<1> QED
  BY <1>1, <1>2 DEF Moved, Others, RequestState

\* So does a step that also keeps a value for later.
LEMMA CarryMoves ==
    ASSUME TypeOK, NEW r \in Request, NEW pc \in PCs,
           NEW out \in Outs,
           req' = [req EXCEPT ![r].pc = pc, ![r].out = out]
    PROVE  Moved(r, req[r].what, pc, req[r].seen, req[r].late, out, req[r].ans)
<1>1. req \in [Request -> RequestState]
  BY RequestFields
<1>2. req' \in [Request -> RequestState]
  BY <1>1 DEF RequestState
<1> QED
  BY <1>1, <1>2 DEF Moved, Others, RequestState

\* An action answers: to the client, or to the tool call that runs it.
LEMMA AnswerMoves ==
    ASSUME TypeOK, NEW r \in Request, NEW a \in Answers, Answer(r, a)
    PROVE  Moved(r, req[r].what, IF req[r].what.kind = "tool" THEN "returned" ELSE "done",
                 0, req[r].late, "", a)
<1>1. PICK pc \in PCs : pc = IF req[r].what.kind = "tool" THEN "returned" ELSE "done"
  BY DEF PCs
<1>2. /\ req \in [Request -> RequestState]
      /\ req' = [req EXCEPT ![r].ans = a, ![r].out = "", ![r].seen = 0, ![r].pc = pc]
  BY <1>1, RequestFields DEF Answer
<1>3. "" \in Outs /\ 0 \in Nat
  BY DEF Words, Answers, Outs
<1>4. req' \in [Request -> RequestState]
  <2>1. PICK f \in [Request -> RequestState] : f = [req EXCEPT ![r].ans = a, ![r].out = "", ![r].pc = pc]
    BY <1>2, <1>3, ZenonT(40) DEF RequestState
  <2>2. req' = [f EXCEPT ![r].seen = 0]
    BY <1>2, <2>1
  <2> QED
    BY <1>3, <2>1, <2>2, SeenTyped
<1> QED
  BY <1>1, <1>2, <1>4 DEF Moved, Others, RequestState

\* A tool call ends with its answer.
LEMMA ReplyMoves ==
    ASSUME TypeOK, NEW r \in Request, NEW a \in Answers, Reply(r, a)
    PROVE  Moved(r, req[r].what, "done", req[r].seen, req[r].late, "", a)
<1>1. /\ req \in [Request -> RequestState]
      /\ req' = [req EXCEPT ![r].ans = a, ![r].pc = "done", ![r].out = ""]
  BY RequestFields DEF Reply
<1>2. "" \in Outs /\ "done" \in PCs
  BY DEF Words, Answers, Outs, PCs
<1>3. req' \in [Request -> RequestState]
  BY <1>1, <1>2, ZenonT(40) DEF RequestState
<1> QED
  BY <1>1, <1>3 DEF Moved, Others, RequestState

\* A command or a delivery ends with its answer.
LEMMA EndMoves ==
    ASSUME TypeOK, NEW r \in Request, NEW a \in Answers, End(r, a)
    PROVE  Moved(r, req[r].what, "done", 0, req[r].late, "", a)
<1>1. /\ req \in [Request -> RequestState]
      /\ req' = [req EXCEPT ![r].pc = "done", ![r].ans = a, ![r].out = "", ![r].seen = 0]
  BY RequestFields DEF End
<1>2. "" \in Outs /\ "done" \in PCs /\ 0 \in Nat
  BY DEF Words, Answers, Outs, PCs
<1>3. req' \in [Request -> RequestState]
  <2>1. PICK f \in [Request -> RequestState] :
          f = [req EXCEPT ![r].pc = "done", ![r].ans = a, ![r].out = ""]
    BY <1>1, <1>2, ZenonT(40) DEF RequestState
  <2>2. req' = [f EXCEPT ![r].seen = 0]
    BY <1>1, <2>1
  <2> QED
    BY <1>2, <2>1, <2>2, SeenTyped
<1> QED
  BY <1>1, <1>3 DEF Moved, Others, RequestState

\* A request arrives.
LEMMA ArriveMoves ==
    ASSUME TypeOK, NEW r \in Request, NEW pc \in PCs, NEW w \in Asked,
           req' = [req EXCEPT ![r].what = w, ![r].pc = pc]
    PROVE  Moved(r, w, pc, req[r].seen, req[r].late, req[r].out, req[r].ans)
<1>1. req \in [Request -> RequestState]
  BY RequestFields
<1>2. req' \in [Request -> RequestState]
  BY <1>1 DEF RequestState
<1> QED
  BY <1>1, <1>2 DEF Moved, Others, RequestState

\* A request that arrives as late or not changes its text, place and lateness.
LEMMA ArriveLateMoves ==
    ASSUME TypeOK, NEW r \in Request, NEW pc \in PCs, NEW w \in Asked, NEW late \in BOOLEAN,
           req' = [req EXCEPT ![r].what = w, ![r].pc = pc, ![r].late = late]
    PROVE  Moved(r, w, pc, req[r].seen, late, req[r].out, req[r].ans)
<1>1. req \in [Request -> RequestState]
  BY RequestFields
<1>2. req' \in [Request -> RequestState]
  BY <1>1, ZenonT(40) DEF RequestState
<1> QED
  BY <1>1, <1>2 DEF Moved, Others, RequestState

\* The action of a click or of a tool call begins.
LEMMA ArrivingMoves ==
    ASSUME TypeOK, NEW r \in Request, NEW w \in Asked, req' = [req EXCEPT ![r] = Arriving(w)]
    PROVE  \E seen \in Nat, late \in BOOLEAN : Moved(r, w, "load", seen, late, "", "")
<1>1. req \in [Request -> RequestState] /\ card \in [id : Nat, cipher : Seeds] \cup {None}
  BY DEF TypeOK, ActionTypes
<1>2. PICK seen \in Nat : seen = IF card = None THEN 0 ELSE card.id
  BY <1>1, SMT
<1>3. PICK late \in BOOLEAN :
        late = (ActionOf(w).kind = "mattermost" /\ ActionOf(w).attachment \in Completed)
  OBVIOUS
<1>4. PICK q : q = Arriving(w)
  OBVIOUS
<1>5. q = [what |-> w, pc |-> "load", seen |-> seen, late |-> late, out |-> "", ans |-> ""]
  BY <1>2, <1>3, <1>4 DEF Arriving
<1>6. "" \in Outs /\ "" \in Answers /\ "load" \in PCs
  BY DEF Words, Answers, Outs, PCs
<1>7. q \in RequestState
  BY <1>5, <1>6 DEF RequestState
<1>8. req' \in [Request -> RequestState] /\ req'[r] = q
      /\ \A p \in Request : p # r => req'[p] = req[p]
  BY <1>1, <1>4, <1>7
<1>9. /\ q.what = w /\ q.pc = "load" /\ q.seen = seen /\ q.late = late
      /\ q.out = "" /\ q.ans = ""
  BY <1>5
<1>10. Moved(r, w, "load", seen, late, "", "")
  BY <1>8, <1>9 DEF Moved, Others
<1> QED
  BY <1>10

\* The integration answered with several values.
LEMMA AcceptMoves ==
    ASSUME TypeOK, NEW r \in Request, NEW n \in Nat,
           req' = [req EXCEPT ![r].pc = "respond", ![r].seen = n]
    PROVE  Moved(r, req[r].what, "respond", n, req[r].late, req[r].out, req[r].ans)
<1>1. req \in [Request -> RequestState] /\ "respond" \in PCs
  BY RequestFields DEF PCs
<1>2. PICK f \in [Request -> RequestState] : f = [req EXCEPT ![r].pc = "respond"]
  BY <1>1 DEF RequestState
<1>3. req' = [f EXCEPT ![r].seen = n]
  BY <1>1, <1>2
<1>4. req' \in [Request -> RequestState]
  <2>1. [f EXCEPT ![r].seen = n] \in [Request -> RequestState]
    BY SeenTyped
  <2> QED
    BY <1>3, <2>1
<1> QED
  BY <1>1, <1>4 DEF Moved, Others, RequestState

\* A countdown step changes only what the request has seen.
LEMMA CountdownMoves ==
    ASSUME TypeOK, NEW r \in Request, NEW n \in Nat, req' = [req EXCEPT ![r].seen = n]
    PROVE  Moved(r, req[r].what, req[r].pc, n, req[r].late, req[r].out, req[r].ans)
<1>1. req \in [Request -> RequestState]
  BY RequestFields DEF PCs
<1>2. req' \in [Request -> RequestState]
  BY <1>1, SeenTyped
<1> QED
  BY <1>1, <1>2 DEF Moved, Others, RequestState

\* A tool call gives its result, and perhaps goes on to record its effect.
LEMMA CompleteMoves ==
    ASSUME TypeOK, NEW r \in Request, NEW pc \in PCs, NEW a \in Answers,
           req' = [req EXCEPT ![r].ans = a, ![r].out = "", ![r].pc = pc]
    PROVE  Moved(r, req[r].what, pc, req[r].seen, req[r].late, "", a)
<1>1. req \in [Request -> RequestState] /\ "" \in Outs
  BY RequestFields DEF Words, Answers, Outs
<1>2. req' \in [Request -> RequestState]
  BY <1>1, ZenonT(40) DEF RequestState
<1> QED
  BY <1>1, <1>2 DEF Moved, Others, RequestState

\* What is left of a request that was lost.
LEMMA GoneFields ==
    /\ Gone \in RequestState /\ Shape(Gone)
    /\ Gone.what = None /\ Gone.pc = "lost" /\ Gone.late = FALSE /\ Gone.out = ""
    /\ Gone.ans = ""
<1>1. Gone.what = None /\ Gone.pc = "lost" /\ Gone.late = FALSE /\ Gone.out = ""
      /\ Gone.ans = "" /\ Gone.seen = 0
  BY DEF Gone, Idle
<1>2. "" \in Outs /\ "" \in Answers /\ "lost" \in PCs /\ 0 \in Nat
  BY SMT DEF Words, Answers, Outs, PCs
<1>3. Gone \in RequestState
  <2>1. Idle \in RequestState
    BY <1>2 DEF Idle, RequestState, PCs
  <2> QED
    BY <1>2, <2>1 DEF Gone, RequestState
<1> QED
  BY <1>1, <1>3 DEF Shape

\* A request whose client is gone is Gone, and the others stay.
LEMMA GoneMoves ==
    ASSUME TypeOK, NEW r \in Request, req' = [req EXCEPT ![r] = Gone]
    PROVE  Others(r) /\ req'[r] = Gone
BY RequestFields, GoneFields DEF Others

-----------------------------------------------------------------------------
(***************************************************************************)
(* The steps of an action.                                                 *)
(***************************************************************************)
AnsweredAs(r, a) ==
    Moved(r, req[r].what, IF req[r].what.kind = "tool" THEN "returned" ELSE "done",
          0, req[r].late, "", a)

SteppedTo(r, pc) ==
    Moved(r, req[r].what, pc, req[r].seen, req[r].late, req[r].out, req[r].ans)

CarriedTo(r, pc, out) ==
    Moved(r, req[r].what, pc, req[r].seen, req[r].late, out, req[r].ans)

\* A request in the middle of an action is a click or an invoking tool call.
LEMMA AtAction ==
    ASSUME Base, NEW r \in Request, req[r].pc \in ActionPcs
    PROVE  /\ req[r].what \in Asked /\ req[r].what # None
           /\ \/ req[r].what.kind = "click"
              \/ req[r].what.kind = "tool" /\ req[r].pc # "look"
                 /\ req[r].what.tool = "notifications.invoke_action"
           /\ ActionOf(req[r].what) \in Op /\ req[r].what.user \in User
           /\ req[r].what.key \in Key /\ ActionOf(req[r].what).kind \in {"http", "mattermost"}
           /\ Index(ActionOf(req[r].what)) \in Nat
           /\ req[r].what.kind = "tool" => ActionOf(req[r].what).kind = "http"
<1>1. req[r].what \in Asked \cup {None} /\ Shape(req[r])
  BY RequestFields DEF Base
<1>2. req[r].pc \notin {"idle", "lost", "done", "returned"} \cup ToolPcs \cup CommandPcs
        \cup DelayedPcs
  BY DEF ActionPcs, ToolPcs, CommandPcs, DelayedPcs
<1>3. req[r].what \in Asked /\ req[r].what # None
  BY <1>1, <1>2 DEF Shape
<1>4. \/ req[r].what.kind = "click"
      \/ req[r].what.kind = "tool" /\ req[r].pc # "look"
         /\ req[r].what.tool = "notifications.invoke_action"
  BY <1>1, <1>2, <1>3 DEF Shape
<1> QED
  BY <1>3, <1>4, ActionTyped

\* Idle requests have nothing yet.
LEMMA AtIdle ==
    ASSUME Base, NEW r \in Request, req[r].pc = "idle"
    PROVE  req[r].what = None /\ req[r].ans = "" /\ req[r].out = "" /\ req[r].late = FALSE
BY DEF Base, Shape

\* A click arrives as a request that loads what was clicked.
LEMMA ClickMoves ==
    ASSUME Base, NEW r \in Request, Click(r)
    PROVE  \E w \in Asked, seen \in Nat, late \in BOOLEAN :
              w.kind = "click" /\ Moved(r, w, "load", seen, late, "", "")
<1>1. TypeOK /\ asked \in Scenarios
  BY DEF Base, TypeOK, ActionTypes
<1>2. PICK w \in asked : w.kind = "click" /\ req' = [req EXCEPT ![r] = Arriving(w)]
  BY DEF Click
<1>3. w \in Asked
  BY <1>1, <1>2 DEF Asked
<1> QED
  BY <1>1, <1>2, <1>3, ArrivingMoves

\* Loading the card refuses the request, or carries its cipher on.
LEMMA LoadCardMoves ==
    ASSUME Base, NEW r \in Request, LoadCard(r)
    PROVE  \/ \E a \in {"not found", "forbidden", "changed"} : AnsweredAs(r, a)
           \/ \E c \in Seeds : CarriedTo(r, "clear", c)
<1>1. TypeOK /\ card \in [id : Nat, cipher : Seeds] \cup {None}
  BY DEF Base, TypeOK, ActionTypes
<1>2. {"not found", "forbidden", "changed"} \subseteq Answers
  BY DEF Answers, Words
<1>3. CASE \E a \in {"not found", "forbidden", "changed"} : Answer(r, a)
  BY <1>1, <1>2, <1>3, AnswerMoves DEF AnsweredAs
<1>4. CASE /\ card # None
           /\ req' = [req EXCEPT ![r].pc = "clear", ![r].out = card.cipher]
  <2>1. PICK c \in Seeds : c = card.cipher
    BY <1>1, <1>4
  <2>2. c \in Outs /\ "clear" \in PCs
    BY DEF Outs, PCs
  <2> QED
    BY <1>1, <1>4, <2>1, <2>2, CarryMoves DEF CarriedTo
<1> QED
  BY <1>3, <1>4 DEF LoadCard

\* Loading the post refuses a Mattermost click, or carries its secret on.
LEMMA LoadPostMoves ==
    ASSUME Base, NEW r \in Request, LoadPost(r)
    PROVE  /\ req[r].what.kind = "click" /\ req[r].what.op.kind = "mattermost"
           /\ \/ \E a \in {"not found", "forbidden"} : AnsweredAs(r, a)
              \/ \E c \in Seeds : CarriedTo(r, "look", c)
<1>1. TypeOK /\ post \in Seeds \cup {None}
  BY DEF Base, TypeOK, ActionTypes
<1>2. {"not found", "forbidden"} \subseteq Answers
  BY DEF Answers, Words
<1>3. req[r].what.kind = "click" /\ req[r].what.op.kind = "mattermost"
  <2>1. req[r].pc \in ActionPcs /\ ActionOf(req[r].what).kind = "mattermost"
    BY DEF LoadPost, ActionPcs
  <2>2. req[r].what.kind = "click"
    BY <2>1, AtAction
  <2> QED
    BY <2>1, <2>2 DEF ActionOf
<1>4. CASE \E a \in {"not found", "forbidden"} : Answer(r, a)
  BY <1>1, <1>2, <1>3, <1>4, AnswerMoves DEF AnsweredAs
<1>5. CASE post # None /\ req' = [req EXCEPT ![r].pc = "look", ![r].out = post]
  <2>1. post \in Seeds /\ post \in Outs /\ "look" \in PCs
    BY <1>1, <1>5 DEF Outs, PCs
  <2> QED
    BY <1>1, <1>3, <1>5, <2>1, CarryMoves DEF CarriedTo
<1> QED
  BY <1>3, <1>4, <1>5 DEF LoadPost

\* A repeat is answered from the posted result only if there is one.
LEMMA LookMoves ==
    ASSUME Base, NEW r \in Request, LookForResult(r)
    PROVE  \/ req[r].what.op.attachment \in Completed /\ AnsweredAs(r, "succeeded")
           \/ SteppedTo(r, "clear")
<1>1. TypeOK /\ "succeeded" \in Answers /\ "clear" \in PCs
  BY DEF Base, Answers, Words, PCs
<1> QED
  BY <1>1, AnswerMoves, StepMoves DEF LookForResult, AnsweredAs, SteppedTo

\* The row a request inserts.
LEMMA RowTyped ==
    ASSUME Base, NEW r \in Request, req[r].pc \in ActionPcs
    PROVE  /\ Row(r) \in ExecutionRow /\ Row(r) # None
           /\ Row(r).kind = ActionOf(req[r].what).kind
           /\ Row(r).index = Index(ActionOf(req[r].what)) /\ Row(r).user = req[r].what.user
           /\ Row(r).status = "running" /\ Row(r).old = FALSE
<1>1. Row(r) \in ExecutionRow
  BY AtAction DEF Row, ExecutionRow
<1> QED
  BY <1>1, NoneIsNoRow DEF Row

\* The rows before and after a statement on one of them.
Rewritten(k, row) ==
    /\ exec' \in [Key -> ExecutionRow \cup {None}]
    /\ exec'[k] = row
    /\ \A j \in Key : j # k => exec'[j] = exec[j]

\* An update of one key of the execution table leaves the others alone.
LEMMA ExecRewritten ==
    ASSUME Base, NEW k \in Key, NEW row \in ExecutionRow \cup {None},
           exec' = [exec EXCEPT ![k] = row]
    PROVE  Rewritten(k, row)
<1>1. exec \in [Key -> ExecutionRow \cup {None}]
  BY DEF Base, TypeOK, ActionTypes
<1> QED
  BY <1>1 DEF Rewritten

\* Clearing removes at most an old row of the request that still runs.
LEMMA ClearMoves ==
    ASSUME Base, NEW r \in Request, ClearStale(r)
    PROVE  /\ SteppedTo(r, "insert") /\ req[r].what.key \in Key
           /\ \/ Rewritten(req[r].what.key, exec[req[r].what.key])
              \/ /\ exec[req[r].what.key] # None /\ exec[req[r].what.key].status = "running"
                 /\ exec[req[r].what.key].old /\ Rewritten(req[r].what.key, None)
<1>1. PICK k \in Key : k = req[r].what.key
  <2>1. req[r].pc \in ActionPcs
    BY DEF ClearStale, ActionPcs
  <2> QED
    BY <2>1, AtAction
<1>2. exec \in [Key -> ExecutionRow \cup {None}] /\ exec[k] \in ExecutionRow \cup {None}
  BY DEF Base, TypeOK, ActionTypes
<1>3. exec' = [exec EXCEPT ![k] = IF exec[k] # None /\ exec[k].status = "running" /\ exec[k].old
                                  THEN None ELSE exec[k]]
  BY <1>1 DEF ClearStale
<1>4. CASE exec[k] # None /\ exec[k].status = "running" /\ exec[k].old
  <2>1. exec' = [exec EXCEPT ![k] = None]
    BY <1>3, <1>4
  <2>2. Rewritten(k, None)
    BY <2>1, ExecRewritten
  <2> QED
    BY <1>1, <1>4, <2>2, StepMoves DEF Base, ClearStale, SteppedTo, PCs
<1>5. CASE ~ (exec[k] # None /\ exec[k].status = "running" /\ exec[k].old)
  <2>1. exec' = [exec EXCEPT ![k] = exec[k]]
    BY <1>3, <1>5
  <2>2. Rewritten(k, exec[k])
    BY <1>2, <2>1, ExecRewritten
  <2> QED
    BY <1>1, <2>2, StepMoves DEF Base, ClearStale, SteppedTo, PCs
<1> QED
  BY <1>4, <1>5

\* The insert writes the request's row if the key is free, and nothing otherwise.
LEMMA InsertMoves ==
    ASSUME Base, NEW r \in Request, InsertExecution(r)
    PROVE  /\ req[r].what.key \in Key
           /\ \/ /\ exec[req[r].what.key] = None /\ SteppedTo(r, "prepare")
                 /\ Rewritten(req[r].what.key, Row(r))
              \/ exec[req[r].what.key] # None /\ exec' = exec /\ SteppedTo(r, "existing")
<1>1. TypeOK /\ req[r].pc \in ActionPcs /\ "prepare" \in PCs /\ "existing" \in PCs
  BY DEF Base, InsertExecution, ActionPcs, PCs
<1>2. PICK k \in Key : k = req[r].what.key
  BY <1>1, AtAction
<1>3. CASE exec[k] = None /\ exec' = [exec EXCEPT ![k] = Row(r)] /\ Step(r, "prepare")
  <2>1. Rewritten(k, Row(r))
    BY <1>1, <1>3, RowTyped, ExecRewritten
  <2> QED
    BY <1>1, <1>2, <1>3, <2>1, StepMoves DEF SteppedTo
<1>4. CASE exec[k] # None /\ exec' = exec /\ Step(r, "existing")
  BY <1>1, <1>2, <1>4, StepMoves DEF SteppedTo
<1> QED
  BY <1>2, <1>3, <1>4 DEF InsertExecution

\* A repeat is told "succeeded" only by a row of the same operation that says so.
LEMMA ReadMoves ==
    ASSUME Base, NEW r \in Request, ReadExisting(r)
    PROVE  \E a \in Words :
              /\ AnsweredAs(r, a)
              /\ a = "succeeded" =>
                   /\ exec[req[r].what.key] # None
                   /\ exec[req[r].what.key].status = "succeeded"
                   /\ SameOperation(exec[req[r].what.key], Row(r))
<1>1. TypeOK /\ req[r].pc \in ActionPcs
  BY DEF Base, ReadExisting, ActionPcs
<1>2. PICK k \in Key : k = req[r].what.key
  BY <1>1, AtAction
<1>3. exec[k] \in ExecutionRow \cup {None}
  BY <1>1 DEF TypeOK, ActionTypes
<1>4. PICK a : a = IF exec[k] = None THEN "error"
                   ELSE IF SameOperation(exec[k], Row(r)) THEN exec[k].status ELSE "conflict"
  OBVIOUS
<1>5. a \in Words
  <2>1. exec[k] # None => exec[k].status \in {"running", "succeeded", "failed"}
    BY <1>3 DEF ExecutionRow
  <2> QED
    BY <1>4, <2>1 DEF Words
<1>6. Answer(r, a)
  BY <1>2, <1>4 DEF ReadExisting
<1>7. AnsweredAs(r, a)
  BY <1>1, <1>5, <1>6, AnswerMoves DEF AnsweredAs, Answers
<1> QED
  BY <1>2, <1>4, <1>5, <1>7

\* Preparing the call goes on to the call or to a failed finish.
LEMMA PrepareMoves ==
    ASSUME Base, NEW r \in Request, Prepare(r)
    PROVE  SteppedTo(r, "call") \/ CarriedTo(r, "finish", "failed")
<1>1. TypeOK /\ "call" \in PCs /\ "finish" \in PCs /\ "failed" \in Outs
  BY DEF Base, PCs, Outs, Answers, Words
<1>2. CASE req' = [req EXCEPT ![r].pc = "call"]
  BY <1>1, <1>2, StepMoves DEF SteppedTo, Step
<1>3. CASE req' = [req EXCEPT ![r].pc = "finish", ![r].out = "failed"]
  BY <1>1, <1>3, CarryMoves DEF CarriedTo
<1> QED
  BY <1>2, <1>3 DEF Prepare

\* The call adds at most its own effect, and reports success only with it.
LEMMA CallMoves ==
    ASSUME Base, NEW r \in Request, CallTarget(r)
    PROVE  \E out \in {"succeeded", "failed"} :
              /\ CarriedTo(r, "finish", out)
              /\ taken' \in {taken, taken \cup {<<req[r].what.key, ActionOf(req[r].what)>>}}
              /\ out = "succeeded" => <<req[r].what.key, ActionOf(req[r].what)>> \in taken'
<1>1. TypeOK /\ "finish" \in PCs /\ {"succeeded", "failed"} \subseteq Outs
  BY DEF Base, PCs, Outs, Answers, Words
<1>2. PICK acted \in BOOLEAN, out \in {"succeeded", "failed"} :
         /\ out = "succeeded" => acted
         /\ taken' = IF acted THEN taken \cup {<<req[r].what.key, ActionOf(req[r].what)>>}
                              ELSE taken
         /\ req' = [req EXCEPT ![r].pc = "finish", ![r].out = out]
  BY DEF CallTarget
<1>3. CarriedTo(r, "finish", out)
  BY <1>1, <1>2, CarryMoves DEF CarriedTo
<1> QED
  BY <1>2, <1>3

\* The row gets an outcome and keeps the rest.
Outcome(row, out) ==
    IF row = None THEN None ELSE [row EXCEPT !.status = out]

\* Writing the outcome changes the status of a row and nothing else.
LEMMA OutcomeRow ==
    ASSUME NEW row \in ExecutionRow \cup {None}, NEW out \in {"succeeded", "failed"}
    PROVE  /\ Outcome(row, out) \in ExecutionRow \cup {None}
           /\ row = None <=> Outcome(row, out) = None
           /\ row # None => /\ Outcome(row, out).status = out
                            /\ Outcome(row, out).kind = row.kind
                            /\ Outcome(row, out).index = row.index
<1>1. row # None => [row EXCEPT !.status = out] \in ExecutionRow
  BY DEF ExecutionRow
<1>2. row # None => [row EXCEPT !.status = out] # None
  BY <1>1, NoneIsNoRow
<1> QED
  BY <1>1, <1>2 DEF Outcome, ExecutionRow

\* Finishing writes the outcome to the row, and answers it if there was one.
LEMMA FinishMoves ==
    ASSUME Base, NEW r \in Request, Finish(r)
    PROVE  /\ req[r].out \in {"succeeded", "failed"} /\ req[r].what.key \in Key
           /\ Rewritten(req[r].what.key, Outcome(exec[req[r].what.key], req[r].out))
           /\ \/ exec[req[r].what.key] = None /\ AnsweredAs(r, "error")
              \/ exec[req[r].what.key] # None /\ AnsweredAs(r, req[r].out)
<1>1. TypeOK /\ req[r].pc \in ActionPcs /\ req[r].pc = "finish"
  BY DEF Base, Finish, ActionPcs
<1>2. PICK k \in Key : k = req[r].what.key
  BY <1>1, AtAction
<1>3. PICK out \in {"succeeded", "failed"} : out = req[r].out
  BY <1>1 DEF Base, Carries
<1>4. exec[k] \in ExecutionRow \cup {None}
  BY <1>1 DEF TypeOK, ActionTypes
<1>5. exec' = [exec EXCEPT ![k] = Outcome(exec[k], out)]
  BY <1>2, <1>3 DEF Finish, Outcome
<1>6. Rewritten(k, Outcome(exec[k], out))
  BY <1>4, <1>5, OutcomeRow, ExecRewritten
<1>7. Answer(r, IF exec[k] = None THEN "error" ELSE out)
  BY <1>2, <1>3 DEF Finish
<1>8. "error" \in Answers /\ out \in Answers
  BY DEF Answers, Words
<1> QED
  BY <1>1, <1>2, <1>3, <1>6, <1>7, <1>8, AnswerMoves DEF AnsweredAs

\* A request is as it should be.
Sound(r) == Shape(req[r]) /\ Carries(req[r])

\* What every step of an action does to its request.
ActionGoes(r) ==
    /\ Others(r)
    /\ req[r].pc \in ActionPcs \cup {"idle"}
    /\ req'[r].what \in Asked /\ req'[r].what # None
    /\ req[r].pc = "idle" => req'[r].what.kind = "click" /\ req'[r].pc = "load"
    /\ req[r].pc # "idle" =>
         /\ req'[r].what = req[r].what
         /\ \/ req[r].what.kind = "click"
            \/ /\ req[r].what.kind = "tool"
               /\ req[r].what.tool = "notifications.invoke_action"
    /\ \/ req'[r].pc \in ActionPcs \ {"look"}
       \/ /\ req'[r].pc = "look" /\ req'[r].what.kind = "click"
          /\ req'[r].what.op.kind = "mattermost"
       \/ req'[r].pc = "returned" /\ req'[r].what.kind = "tool"
       \/ req'[r].pc = "done" /\ req'[r].what.kind = "click"
    /\ req'[r].pc = "finish" => req'[r].out \in {"succeeded", "failed"}

\* An answered action goes where ActionGoes says.
LEMMA AnswerGoes ==
    ASSUME Base, NEW r \in Request, req[r].pc \in ActionPcs, NEW a, AnsweredAs(r, a)
    PROVE  ActionGoes(r)
<1>1. /\ Others(r) /\ req'[r].what = req[r].what
      /\ req'[r].pc = IF req[r].what.kind = "tool" THEN "returned" ELSE "done"
  BY DEF AnsweredAs, Moved
<1>2. req[r].pc # "idle" /\ req'[r].pc # "finish"
  BY <1>1 DEF ActionPcs
<1> QED
  BY <1>1, <1>2, AtAction DEF ActionGoes

\* So does an action carried to its next step.
LEMMA CarryGoes ==
    ASSUME Base, NEW r \in Request, req[r].pc \in ActionPcs, NEW pc \in ActionPcs, NEW out,
           CarriedTo(r, pc, out),
           pc = "look" => req[r].what.kind = "click" /\ req[r].what.op.kind = "mattermost",
           pc = "finish" => out \in {"succeeded", "failed"}
    PROVE  ActionGoes(r)
<1>1. Others(r) /\ req'[r].what = req[r].what /\ req'[r].pc = pc /\ req'[r].out = out
  BY DEF CarriedTo, Moved
<1>2. req[r].pc # "idle"
  BY DEF ActionPcs
<1> QED
  BY <1>1, <1>2, AtAction DEF ActionGoes

\* Every step of an action leaves its request in shape.
LEMMA ActionGo ==
    ASSUME Base, NEW r \in Request, ActionStep(r)
    PROVE  ActionGoes(r)
<1>1. CASE Click(r)
  <2>1. PICK w \in Asked, seen \in Nat, late \in BOOLEAN :
          w.kind = "click" /\ Moved(r, w, "load", seen, late, "", "")
    BY <1>1, ClickMoves
  <2>2. req[r].pc = "idle" /\ w # None
    BY <1>1, NoneIsNoRow DEF Click
  <2> QED
    BY <2>1, <2>2 DEF ActionGoes, Moved, ActionPcs
<1>2. CASE LoadCard(r)
  BY <1>2, LoadCardMoves, AnswerGoes, CarryGoes DEF LoadCard, ActionPcs
<1>3. CASE LoadPost(r)
  BY <1>3, LoadPostMoves, AnswerGoes, CarryGoes DEF LoadPost, ActionPcs
<1>4. CASE LookForResult(r)
  BY <1>4, LookMoves, AnswerGoes, CarryGoes DEF LookForResult, ActionPcs, SteppedTo, CarriedTo
<1>5. CASE ClearStale(r)
  BY <1>5, ClearMoves, CarryGoes DEF ClearStale, ActionPcs, SteppedTo, CarriedTo
<1>6. CASE InsertExecution(r)
  BY <1>6, InsertMoves, CarryGoes DEF InsertExecution, ActionPcs, SteppedTo, CarriedTo
<1>7. CASE ReadExisting(r)
  BY <1>7, ReadMoves, AnswerGoes DEF ReadExisting, ActionPcs
<1>8. CASE Prepare(r)
  BY <1>8, PrepareMoves, CarryGoes DEF Prepare, ActionPcs, SteppedTo, CarriedTo
<1>9. CASE CallTarget(r)
  BY <1>9, CallMoves, CarryGoes DEF CallTarget, ActionPcs
<1>10. CASE Finish(r)
  BY <1>10, FinishMoves, AnswerGoes DEF Finish, ActionPcs
<1> QED
  BY <1>1, <1>2, <1>3, <1>4, <1>5, <1>6, <1>7, <1>8, <1>9, <1>10 DEF ActionStep

\* A step of an action leaves its request sound and the others alone.
LEMMA ActionSound ==
    ASSUME Base, NEW r \in Request, ActionStep(r)
    PROVE  Others(r) /\ Sound(r)'
<1>1. ActionGoes(r)
  BY ActionGo
<1>2. /\ req'[r].pc \notin {"idle", "lost", "message", "beat", "complete"} \cup CommandPcs
                           \cup DelayedPcs
      /\ req'[r].pc \in ActionPcs \cup {"returned", "done"}
  BY <1>1 DEF ActionGoes, ActionPcs, CommandPcs, DelayedPcs
<1>3. req'[r].what.kind \in {"click", "tool"}
      /\ (req'[r].what.kind = "tool" => req'[r].what.tool = "notifications.invoke_action")
  BY <1>1 DEF ActionGoes
<1>4. Shape(req'[r])
  BY <1>1, <1>2, <1>3 DEF ActionGoes, Shape
<1>5. Carries(req[r])'
  BY <1>1, <1>2 DEF ActionGoes, Carries, CommandPcs, DelayedPcs
<1> QED
  BY <1>1, <1>4, <1>5 DEF ActionGoes, Sound

\* The variables of Actions keep their types.
LEMMA ActionStepTypes ==
    ASSUME Base, NEW r \in Request, ActionStep(r)
    PROVE  ActionTypes'
<1>1. ActionTypes /\ req' \in [Request -> RequestState]
  BY ActionGo DEF Base, TypeOK, ActionGoes, Others
<1>2. /\ asked' = asked /\ card' = card /\ post' = post /\ target' = target
      /\ setting' = setting /\ seed' = seed /\ edits' = edits /\ aged' = aged /\ lost' = lost
  BY DEF ActionStep, Click, LoadCard, LoadPost, LookForResult, ClearStale, InsertExecution,
     ReadExisting, Prepare, CallTarget, Finish, config, history
<1>3. exec' \in [Key -> ExecutionRow \cup {None}]
  <2>1. CASE exec' = exec
    BY <1>1, <2>1 DEF ActionTypes
  <2>2. CASE ClearStale(r) \/ InsertExecution(r) \/ Finish(r)
    BY <2>1, <2>2, ClearMoves, InsertMoves, FinishMoves DEF Rewritten
  <2> QED
    BY <2>1, <2>2 DEF ActionStep, Click, LoadCard, LoadPost, LookForResult, ReadExisting,
       Prepare, CallTarget
<1>4. sent' \in [Key -> Nat] /\ taken' \subseteq Key \X Op
  <2>1. CASE sent' = sent /\ taken' = taken
    BY <1>1, <2>1 DEF ActionTypes
  <2>2. CASE CallTarget(r)
    <3>1. req[r].pc \in ActionPcs
      BY <2>2 DEF CallTarget, ActionPcs
    <3>2. PICK k \in Key : k = req[r].what.key
      BY <3>1, AtAction
    <3>3. sent' = [sent EXCEPT ![k] = sent[k] + 1] /\ sent \in [Key -> Nat]
      BY <1>1, <2>2, <3>2 DEF CallTarget, ActionTypes
    <3>4. sent' \in [Key -> Nat]
      BY <3>3, SMT
    <3>5. PICK op \in Op : op = ActionOf(req[r].what)
      BY <3>1, AtAction
    <3>6. taken' \in {taken, taken \cup {<<k, op>>}} /\ taken \subseteq Key \X Op
      BY <1>1, <2>2, <3>2, <3>5, CallMoves DEF ActionTypes
    <3>7. taken' \subseteq Key \X Op
      BY <3>6, SMT
    <3> QED
      BY <3>4, <3>7
  <2> QED
    BY <2>1, <2>2 DEF ActionStep, Click, LoadCard, LoadPost, LookForResult, ClearStale,
       InsertExecution, ReadExisting, Prepare, Finish, history
<1> QED
  BY <1>1, <1>2, <1>3, <1>4 DEF ActionTypes

-----------------------------------------------------------------------------
(***************************************************************************)
(* The steps of a tool call.                                               *)
(***************************************************************************)
\* A request in the middle of a tool call.
LEMMA AtTool ==
    ASSUME Base, NEW r \in Request, req[r].pc \in ToolPcs \cup {"returned"}
    PROVE  /\ req[r].what \in Asked /\ req[r].what \in Calls /\ req[r].what # None
           /\ req[r].what.kind = "tool" /\ req[r].what.key \in Key
           /\ req[r].what.tool \in Tools
           /\ req[r].pc = "returned" => req[r].what.tool = "notifications.invoke_action"
<1>1. req[r].what \in Asked \cup {None} /\ Shape(req[r])
  BY RequestFields DEF Base
<1>2. /\ req[r].pc \notin {"idle", "lost", "done"} \cup ActionPcs \cup CommandPcs \cup DelayedPcs
      /\ req[r].pc = "returned" => req[r].pc \notin ToolPcs
  BY DEF ActionPcs, ToolPcs, CommandPcs, DelayedPcs
<1>3. req[r].what \in Asked /\ req[r].what # None /\ req[r].what.kind = "tool"
      /\ (req[r].pc = "returned" => req[r].what.tool = "notifications.invoke_action")
  BY <1>1, <1>2 DEF Shape
<1> QED
  BY <1>3, AskedTypes

\* Results are no other answers, and requests no words.
LEMMA ResultsApart ==
    /\ \A a \in {"", "error", "running", "failed", "conflict", "not found", "forbidden",
                 "changed", "in progress"} : a \notin Results
    /\ \A r \in Request : r \in Results /\ r # "succeeded" /\ r # ""
    /\ Results \subseteq Answers /\ Results \subseteq Outs
<1>1. Request \cap Words = {}
  BY ToolAssumptions
<1>2. {"", "error", "running", "failed", "conflict", "not found", "forbidden",
       "changed", "in progress", "succeeded"} \subseteq Words
  BY DEF Words
<1> QED
  BY <1>1, <1>2 DEF Results, Answers, Outs

ToolWork == {"apply", "message", "mark", "beat", "insert event"}

\* What a step of the tool itself does: to its request, ...
WorksOn(r) ==
    /\ Others(r)
    /\ req[r].pc \in ToolWork
    /\ req'[r].what = req[r].what /\ req'[r].ans = req[r].ans /\ req'[r].late = req[r].late
    /\ \/ req'[r].pc = "complete" /\ req'[r].out \in Results \ {"succeeded"}
       \/ req'[r].pc \in {"release", "insert event", "mark"}
       \/ req'[r].pc = "message" /\ req[r].what.tool = "messages.publish"
       \/ req'[r].pc = "beat" /\ req[r].what.tool = "agents.heartbeat"

\* ... to the history of effects and the notification, ...
Affects(r) ==
    /\ \/ made' = made
       \/ /\ made' = made \cup {<<req[r].what, r>>} /\ req'[r].pc = "complete"
          /\ req[r].what.tool # "notifications.set_state"
       \/ /\ made' = made \cup {<<req[r].what, r>>}
          /\ req[r].what.tool = "notifications.set_state"
          /\ state = "firing" /\ state' = "resolved"
    /\ state' \in {state, "resolved"}

\* ... to the runs, and to nothing of the reservations.
Works(r) ==
    /\ WorksOn(r) /\ Affects(r)
    /\ \/ run' = run
       \/ run' = [run EXCEPT ![r] = "running"]
       \/ run' = [run EXCEPT ![Open] = "completed"]
    /\ UNCHANGED <<exec, config, aged, history, tool, enabled, toolLost, caught>>

\* A step that succeeds, perhaps with the tool's effect.
LEMMA CarryWorks ==
    ASSUME Base, NEW r \in Request, req[r].pc \in ToolWork,
           NEW out \in Results \ {"succeeded"}, Applied(r, out),
           \/ made' = made
           \/ Effect(r) /\ req[r].what.tool # "notifications.set_state",
           state' = state
    PROVE  WorksOn(r) /\ Affects(r)
<1>1. TypeOK /\ "complete" \in PCs /\ out \in Outs
  BY ResultsApart DEF Base, PCs
<1>2. CarriedTo(r, "complete", out)
  BY <1>1, CarryMoves DEF CarriedTo, Applied
<1> QED
  BY <1>2 DEF CarriedTo, Moved, WorksOn, Affects, Effect

\* A step that goes on, or fails.
LEMMA StepWorks ==
    ASSUME Base, NEW r \in Request, req[r].pc \in ToolWork,
           NEW pc, Step(r, pc),
           \/ pc \in {"release", "insert event", "mark"}
           \/ pc = "message" /\ req[r].what.tool = "messages.publish"
           \/ pc = "beat" /\ req[r].what.tool = "agents.heartbeat"
    PROVE  WorksOn(r) /\ ((made' = made /\ state' = state) => Affects(r))
<1>1. TypeOK /\ pc \in PCs
  BY DEF Base, PCs
<1>2. SteppedTo(r, pc)
  BY <1>1, StepMoves DEF SteppedTo
<1> QED
  BY <1>2 DEF SteppedTo, Moved, WorksOn, Affects

\* The tools on runs, and the publishing of a notification.
LEMMA RunsWork ==
    ASSUME Base, NEW r \in Request,
           StartAgentRun(r) \/ FinishAgentRun(r) \/ PublishNotification(r)
    PROVE  Works(r)
<1>1. req[r].pc \in ToolWork /\ r \in Results \ {"succeeded"}
      /\ "completed" \in Results \ {"succeeded"}
      /\ req[r].what.tool # "notifications.set_state" /\ state' = state
  BY ResultsApart DEF StartAgentRun, FinishAgentRun, PublishNotification, Uses, ToolWork,
     Results
<1>2. CASE StartAgentRun(r)
  BY <1>1, <1>2, CarryWorks DEF StartAgentRun, Works
<1>3. CASE FinishAgentRun(r)
  <2>1. WorksOn(r) /\ Affects(r)
    BY <1>1, <1>3, CarryWorks, StepWorks DEF FinishAgentRun, Failed
  <2> QED
    BY <1>3, <2>1 DEF FinishAgentRun, Works
<1>4. CASE PublishNotification(r)
  <2>1. WorksOn(r) /\ Affects(r)
    BY <1>1, <1>4, CarryWorks, StepWorks DEF PublishNotification, Failed
  <2> QED
    BY <1>4, <2>1 DEF PublishNotification, Works
<1> QED
  BY <1>2, <1>3, <1>4

\* Messages: the check of the run, and the message.
LEMMA MessageWorks ==
    ASSUME Base, NEW r \in Request, CheckMessageRun(r) \/ CreateMessage(r)
    PROVE  Works(r)
<1>1. /\ req[r].pc \in ToolWork /\ r \in Results \ {"succeeded"} /\ state' = state
      /\ req[r].what.tool = "messages.publish"
      /\ message \subseteq [key : Key, id : Request]
  BY ResultsApart DEF Base, Shape, TypeOK, ToolTypes, CheckMessageRun, CreateMessage, Uses,
     ToolWork, toolVars
<1>2. CASE CheckMessageRun(r)
  <2>1. WorksOn(r) /\ Affects(r)
    BY <1>1, <1>2, StepWorks DEF CheckMessageRun, toolVars
  <2> QED
    BY <1>2, <2>1 DEF CheckMessageRun, Works, toolVars
<1>3. CASE CreateMessage(r)
  <2>1. WorksOn(r) /\ Affects(r)
    <3>1. CASE Effect(r) /\ Applied(r, r)
      BY <1>1, <3>1, CarryWorks
    <3>2. CASE made' = made /\ \E m \in message : Applied(r, m.id)
      <4>1. PICK m \in message : Applied(r, m.id)
        BY <3>2
      <4>2. m.id \in Results \ {"succeeded"}
        BY <1>1, ResultsApart
      <4> QED
        BY <1>1, <3>2, <4>1, <4>2, CarryWorks
    <3> QED
      BY <1>3, <3>1, <3>2 DEF CreateMessage
  <2> QED
    BY <1>3, <2>1 DEF CreateMessage, Works
<1> QED
  BY <1>2, <1>3

\* The state of a notification, channels and presence.
LEMMA StateWorks ==
    ASSUME Base, NEW r \in Request,
           SetState(r) \/ CreateChannel(r) \/ CheckPresence(r) \/ UpsertPresence(r)
    PROVE  Works(r)
<1>1. /\ req[r].pc \in ToolWork /\ r \in Results \ {"succeeded"}
      /\ "ttl" \in Results \ {"succeeded"} /\ state \in {"firing", "resolved"}
  BY ResultsApart DEF Base, TypeOK, ToolTypes, SetState, CreateChannel, CheckPresence,
     UpsertPresence, Uses, ToolWork, Results
<1>2. CASE SetState(r)
  <2>1. WorksOn(r)
    BY <1>1, <1>2, StepWorks DEF SetState
  <2>2. Affects(r)
    BY <1>1, <1>2 DEF SetState, Uses, Affects
  <2> QED
    BY <1>2, <2>1, <2>2 DEF SetState, Works
<1>3. CASE CreateChannel(r)
  <2>1. req[r].what.tool # "notifications.set_state" /\ state' = state
    BY <1>3 DEF CreateChannel, Uses
  <2>2. WorksOn(r) /\ Affects(r)
    BY <1>1, <1>3, <2>1, CarryWorks, StepWorks DEF CreateChannel, Failed
  <2> QED
    BY <1>3, <2>2 DEF CreateChannel, Works
<1>4. CASE CheckPresence(r)
  <2>1. WorksOn(r) /\ Affects(r)
    BY <1>1, <1>4, StepWorks DEF CheckPresence, Uses, toolVars
  <2> QED
    BY <1>4, <2>1 DEF CheckPresence, Works, toolVars
<1>5. CASE UpsertPresence(r)
  <2>1. req[r].what.tool # "notifications.set_state" /\ state' = state
    BY <1>5 DEF UpsertPresence, Base, Shape
  <2>2. WorksOn(r) /\ Affects(r)
    BY <1>1, <1>5, <2>1, CarryWorks DEF UpsertPresence
  <2> QED
    BY <1>5, <2>2 DEF UpsertPresence, Works
<1> QED
  BY <1>2, <1>3, <1>4, <1>5

\* The event that a tool records as its own work.
LEMMA EventWorks ==
    ASSUME Base, NEW r \in Request, req[r].pc \in ToolWork, CheckRun(r) \/ InsertEvent(r)
    PROVE  Works(r)
<1>1. req[r].pc \notin {"effect", "event"} /\ "recorded" \in Results \ {"succeeded"}
      /\ made' = made /\ state' = state
  BY DEF ToolWork, Results, CheckRun, InsertEvent, toolVars
<1>2. CASE CheckRun(r)
  <2>1. WorksOn(r) /\ Affects(r)
    BY <1>1, <1>2, StepWorks DEF CheckRun
  <2> QED
    BY <1>2, <2>1 DEF CheckRun, Works, toolVars
<1>3. CASE InsertEvent(r)
  <2>1. WorksOn(r) /\ Affects(r)
    BY <1>1, <1>3, CarryWorks DEF InsertEvent
  <2> QED
    BY <1>3, <2>1 DEF InsertEvent, Works
<1> QED
  BY <1>2, <1>3

\* The reservation of a tool call.
Reserved(w) == [args |-> w, status |-> "running", result |-> "", old |-> FALSE]

\* The row a tool call reserves runs, is new, and has no result.
LEMMA ReservedRow ==
    ASSUME NEW w \in Calls
    PROVE  /\ Reserved(w) \in InvocationRow /\ Reserved(w) # None
           /\ Reserved(w).args = w /\ Reserved(w).status = "running"
           /\ Reserved(w).result = "" /\ Reserved(w).old = FALSE
<1>1. Reserved(w) \in InvocationRow
  BY DEF Reserved, InvocationRow
<1> QED
  BY <1>1, NoneIsNoRow DEF Reserved

ToolRewritten(k, row) ==
    /\ tool' \in [Key -> InvocationRow \cup {None}]
    /\ tool'[k] = row
    /\ \A j \in Key : j # k => tool'[j] = tool[j]

\* An update of one key of the invocation table leaves the others alone.
LEMMA InvocationRewritten ==
    ASSUME Base, NEW k \in Key, NEW row \in InvocationRow \cup {None},
           tool' = [tool EXCEPT ![k] = row]
    PROVE  ToolRewritten(k, row)
<1>1. tool \in [Key -> InvocationRow \cup {None}]
  BY DEF Base, TypeOK, ToolTypes
<1> QED
  BY <1>1 DEF ToolRewritten

\* mcpMutate begins.
LEMMA ToolCallMoves ==
    ASSUME Base, NEW r \in Request, ToolCall(r)
    PROVE  \E w \in Calls : /\ w \in Asked
                            /\ Moved(r, w, "tclear", req[r].seen, FALSE, "", "")
<1>1. TypeOK /\ asked \in Scenarios /\ "tclear" \in PCs
  BY DEF Base, TypeOK, ActionTypes, PCs
<1>2. PICK w \in Calls \cap asked : req' = [req EXCEPT ![r].what = w, ![r].pc = "tclear"]
  BY DEF ToolCall
<1>3. w \in Asked
  BY <1>1 DEF Asked, Calls
<1>4. Moved(r, w, "tclear", req[r].seen, req[r].late, req[r].out, req[r].ans)
  BY <1>1, <1>2, <1>3, ArriveMoves
<1>5. req[r].late = FALSE /\ req[r].out = "" /\ req[r].ans = ""
  BY AtIdle DEF ToolCall
<1> QED
  BY <1>3, <1>4, <1>5

\* Clearing removes at most an old invocation that still runs.
LEMMA ClearToolMoves ==
    ASSUME Base, NEW r \in Request, ClearStaleTool(r)
    PROVE  /\ SteppedTo(r, "tinsert") /\ req[r].what.key \in Key
           /\ \/ ToolRewritten(req[r].what.key, tool[req[r].what.key])
              \/ /\ tool[req[r].what.key] # None /\ tool[req[r].what.key].status = "running"
                 /\ tool[req[r].what.key].old /\ ToolRewritten(req[r].what.key, None)
<1>1. TypeOK /\ "tinsert" \in PCs /\ req[r].pc \in ToolPcs
  BY DEF Base, PCs, ClearStaleTool, ToolPcs
<1>2. PICK k \in Key : k = req[r].what.key
  BY <1>1, AtTool
<1>3. tool[k] \in InvocationRow \cup {None}
  BY <1>1 DEF TypeOK, ToolTypes
<1>4. tool' = [tool EXCEPT ![k] = IF tool[k] # None /\ tool[k].status = "running" /\ tool[k].old
                                  THEN None ELSE tool[k]]
  BY <1>2 DEF ClearStaleTool
<1>5. SteppedTo(r, "tinsert")
  BY <1>1, StepMoves DEF ClearStaleTool, SteppedTo
<1>6. CASE tool[k] # None /\ tool[k].status = "running" /\ tool[k].old
  <2>1. tool' = [tool EXCEPT ![k] = None]
    BY <1>4, <1>6
  <2> QED
    BY <1>2, <1>5, <1>6, <2>1, InvocationRewritten
<1>7. CASE ~ (tool[k] # None /\ tool[k].status = "running" /\ tool[k].old)
  <2>1. tool' = [tool EXCEPT ![k] = tool[k]]
    BY <1>4, <1>7
  <2> QED
    BY <1>2, <1>3, <1>5, <2>1, InvocationRewritten
<1> QED
  BY <1>6, <1>7

\* The insert reserves the key if it is free, and writes nothing otherwise.
LEMMA InsertToolMoves ==
    ASSUME Base, NEW r \in Request, InsertTool(r)
    PROVE  /\ req[r].what.key \in Key
           /\ \/ /\ tool[req[r].what.key] = None /\ SteppedTo(r, "apply")
                 /\ ToolRewritten(req[r].what.key, Reserved(req[r].what))
              \/ tool[req[r].what.key] # None /\ tool' = tool /\ SteppedTo(r, "texisting")
<1>1. TypeOK /\ "apply" \in PCs /\ "texisting" \in PCs /\ req[r].pc \in ToolPcs
  BY DEF Base, PCs, InsertTool, ToolPcs
<1>2. PICK k \in Key : k = req[r].what.key
  BY <1>1, AtTool
<1>3. CASE /\ tool[k] = None /\ Step(r, "apply")
           /\ tool' = [tool EXCEPT ![k] = Reserved(req[r].what)]
  <2>1. ToolRewritten(k, Reserved(req[r].what))
    BY <1>1, <1>3, AtTool, ReservedRow, InvocationRewritten
  <2> QED
    BY <1>1, <1>2, <1>3, <2>1, StepMoves DEF SteppedTo
<1>4. CASE tool[k] # None /\ tool' = tool /\ Step(r, "texisting")
  BY <1>1, <1>2, <1>4, StepMoves DEF SteppedTo
<1> QED
  BY <1>2, <1>3, <1>4 DEF InsertTool, Reserved

EndedAs(r, a) == Moved(r, req[r].what, "done", req[r].seen, req[r].late, "", a)

\* What a repeated call is told.
LEMMA ReadToolMoves ==
    ASSUME Base, NEW r \in Request, ReadExistingTool(r)
    PROVE  \E a \in Answers :
              /\ EndedAs(r, a)
              /\ a \in Results =>
                   /\ tool[req[r].what.key] # None
                   /\ tool[req[r].what.key].status = "completed"
                   /\ tool[req[r].what.key].args = req[r].what
                   /\ tool[req[r].what.key].result = a
<1>1. TypeOK /\ req[r].pc \in ToolPcs
  BY DEF Base, ReadExistingTool, ToolPcs
<1>2. PICK k \in Key : k = req[r].what.key
  BY <1>1, AtTool
<1>3. tool[k] \in InvocationRow \cup {None}
  BY <1>1 DEF TypeOK, ToolTypes
<1>4. PICK a : a = IF tool[k] = None THEN "error"
                   ELSE IF tool[k].args # req[r].what THEN "conflict"
                   ELSE IF tool[k].status # "completed" THEN "in progress"
                   ELSE tool[k].result
  OBVIOUS
<1>5. a \in Answers
  <2>1. tool[k] # None => tool[k].result \in Results \cup {""}
    BY <1>3 DEF InvocationRow
  <2> QED
    BY <1>4, <2>1 DEF Words, Answers
<1>6. Reply(r, a)
  BY <1>2, <1>4 DEF ReadExistingTool
<1>7. EndedAs(r, a)
  BY <1>1, <1>5, <1>6, ReplyMoves DEF EndedAs
<1>8. "error" \notin Results /\ "conflict" \notin Results /\ "in progress" \notin Results
  BY ResultsApart
<1> QED
  BY <1>2, <1>4, <1>5, <1>7, <1>8

\* A failed call removes the reservation if it still runs.
LEMMA ReleaseMoves ==
    ASSUME Base, NEW r \in Request, Release(r)
    PROVE  /\ EndedAs(r, "failed") /\ req[r].what.key \in Key
           /\ \/ tool[req[r].what.key] # None /\ ToolRewritten(req[r].what.key, None)
                 /\ tool[req[r].what.key].status = "running"
              \/ ToolRewritten(req[r].what.key, tool[req[r].what.key])
<1>1. TypeOK /\ "failed" \in Answers /\ req[r].pc \in ToolPcs
  BY DEF Base, Answers, Words, Release, ToolPcs
<1>2. PICK k \in Key : k = req[r].what.key
  BY <1>1, AtTool
<1>3. tool[k] \in InvocationRow \cup {None}
  BY <1>1 DEF TypeOK, ToolTypes
<1>4. tool' = [tool EXCEPT ![k] = IF tool[k] # None /\ tool[k].status = "running"
                                  THEN None ELSE tool[k]]
  BY <1>2 DEF Release
<1>5. EndedAs(r, "failed")
  BY <1>1, ReplyMoves DEF Release, EndedAs
<1>6. CASE tool[k] # None /\ tool[k].status = "running"
  <2>1. tool' = [tool EXCEPT ![k] = None]
    BY <1>4, <1>6
  <2> QED
    BY <1>2, <1>5, <1>6, <2>1, InvocationRewritten
<1>7. CASE ~ (tool[k] # None /\ tool[k].status = "running")
  <2>1. tool' = [tool EXCEPT ![k] = tool[k]]
    BY <1>4, <1>7
  <2> QED
    BY <1>2, <1>3, <1>5, <2>1, InvocationRewritten
<1> QED
  BY <1>6, <1>7

\* A completed reservation.
Stored(row, res) ==
    IF row = None THEN None ELSE [row EXCEPT !.status = "completed", !.result = res]

\* Storing a result completes the row and keeps its arguments and age.
LEMMA StoredRow ==
    ASSUME NEW row \in InvocationRow \cup {None}, NEW res \in Results
    PROVE  /\ Stored(row, res) \in InvocationRow \cup {None}
           /\ row = None <=> Stored(row, res) = None
           /\ row # None => /\ Stored(row, res).status = "completed"
                            /\ Stored(row, res).result = res
                            /\ Stored(row, res).args = row.args
                            /\ Stored(row, res).old = row.old
<1>1. row # None => [row EXCEPT !.status = "completed", !.result = res] \in InvocationRow
  BY DEF InvocationRow
<1>2. row # None => [row EXCEPT !.status = "completed", !.result = res] # None
  BY <1>1, NoneIsNoRow
<1> QED
  BY <1>1, <1>2 DEF Stored, InvocationRow

\* A completing call stores its result, or loses it and counts the loss.
LEMMA CompletedMoves ==
    ASSUME Base, NEW r \in Request, Complete(r)
    PROVE  /\ req[r].what.key \in Key /\ req[r].out \in Results
           /\ \E pc \in {"effect", "done"} :
                Moved(r, req[r].what, pc, req[r].seen, req[r].late, "", req[r].out)
           /\ \/ /\ ToolRewritten(req[r].what.key, Stored(tool[req[r].what.key], req[r].out))
                 /\ toolLost' = toolLost
              \/ /\ tool' = tool
                 /\ toolLost' = [toolLost EXCEPT ![req[r].what.key] = @ + 1]
<1>1. TypeOK /\ req[r].pc \in ToolPcs /\ req[r].pc = "complete"
      /\ "effect" \in PCs /\ "done" \in PCs
  BY DEF Base, Complete, ToolPcs, PCs
<1>2. PICK k \in Key : k = req[r].what.key
  BY <1>1, AtTool
<1>3. PICK a \in Results : a = req[r].out
  BY <1>1 DEF Base, Carries
<1>4. PICK pc \in {"effect", "done"} :
        pc = IF req[r].what.tool \in Recorded THEN "effect" ELSE "done"
  OBVIOUS
<1>5. req' = [req EXCEPT ![r].ans = a, ![r].out = "", ![r].pc = pc]
  BY <1>3, <1>4 DEF Complete
<1>6. Moved(r, req[r].what, pc, req[r].seen, req[r].late, "", a)
  BY <1>1, <1>5, CompleteMoves, ResultsApart
<1>7. tool[k] \in InvocationRow \cup {None}
  BY <1>1 DEF TypeOK, ToolTypes
<1>8. CASE tool' = [tool EXCEPT ![k] = Stored(tool[k], a)] /\ toolLost' = toolLost
  <2>1. ToolRewritten(k, Stored(tool[k], a))
    BY <1>7, <1>8, StoredRow, InvocationRewritten
  <2> QED
    BY <1>2, <1>3, <1>6, <1>8, <2>1
<1>9. CASE tool' = tool /\ toolLost' = [toolLost EXCEPT ![k] = @ + 1]
  BY <1>2, <1>3, <1>6, <1>9
<1> QED
  BY <1>2, <1>3, <1>8, <1>9 DEF Complete, Stored

\* After the answer is known, the effect is recorded in the run.
Trails(r) ==
    /\ req[r].pc \in {"effect", "event"}
    /\ SteppedTo(r, "event") \/ SteppedTo(r, "done")
    /\ UNCHANGED <<exec, config, aged, history, tool, run, state, made, enabled, toolLost,
                   caught>>

\* The steps after the answer write the trail and change no row.
LEMMA TrailMoves ==
    ASSUME Base, NEW r \in Request, req[r].pc \in {"effect", "event"},
           CheckRun(r) \/ InsertEvent(r)
    PROVE  Trails(r)
<1>1. TypeOK /\ "event" \in PCs /\ "done" \in PCs
  BY DEF Base, PCs
<1>2. CASE CheckRun(r)
  <2>1. req[r].pc = "effect"
    BY <1>2 DEF CheckRun, Uses
  <2>2. Step(r, "event") \/ Step(r, "done")
    BY <1>2, <2>1 DEF CheckRun
  <2> QED
    BY <1>1, <1>2, <2>2, StepMoves DEF CheckRun, Trails, SteppedTo, toolVars
<1>3. CASE InsertEvent(r)
  <2>1. Step(r, "done")
    BY <1>3 DEF InsertEvent
  <2> QED
    BY <1>1, <1>3, <2>1, StepMoves DEF InsertEvent, Trails, SteppedTo
<1> QED
  BY <1>2, <1>3

\* A tool that invokes an action starts the steps of the action.
LEMMA InvokeMoves ==
    ASSUME Base, NEW r \in Request, InvokeAction(r)
    PROVE  /\ req[r].what.tool = "notifications.invoke_action"
           /\ \E seen \in Nat, late \in BOOLEAN :
                Moved(r, req[r].what, "load", seen, late, "", "")
<1>1. TypeOK /\ req[r].pc \in ToolPcs /\ req[r].what.tool = "notifications.invoke_action"
  BY DEF Base, InvokeAction, Uses, ToolPcs
<1>2. req[r].what \in Asked
  BY <1>1, AtTool
<1> QED
  BY <1>1, <1>2, ArrivingMoves DEF InvokeAction

\* The tool completes with the action's success and releases on anything else.
LEMMA ReturnMoves ==
    ASSUME Base, NEW r \in Request, InvokeReturns(r)
    PROVE  \/ req[r].ans = "succeeded" /\ CarriedTo(r, "complete", "succeeded")
           \/ req[r].ans # "succeeded" /\ SteppedTo(r, "release")
<1>1. TypeOK /\ "complete" \in PCs /\ "release" \in PCs /\ "succeeded" \in Outs
  BY DEF Base, PCs, Outs, Answers, Words
<1>2. CASE req[r].ans = "succeeded"
  <2>1. req' = [req EXCEPT ![r].pc = "complete", ![r].out = "succeeded"]
    BY <1>2 DEF InvokeReturns
  <2> QED
    BY <1>1, <1>2, <2>1, CarryMoves DEF CarriedTo
<1>3. CASE req[r].ans # "succeeded"
  BY <1>1, <1>3, StepMoves DEF InvokeReturns, SteppedTo
<1> QED
  BY <1>2, <1>3

\* The cases of a tool call's step.
LEMMA ToolCases ==
    ASSUME Base, NEW r \in Request, ToolStep(r)
    PROVE  \/ ToolCall(r) \/ ClearStaleTool(r) \/ InsertTool(r) \/ ReadExistingTool(r)
           \/ Works(r) \/ Trails(r) \/ InvokeAction(r) \/ InvokeReturns(r)
           \/ Complete(r) \/ Release(r)
<1>1. CheckRun(r) => req[r].pc \in ToolWork \/ req[r].pc \in {"effect", "event"}
  BY DEF CheckRun, Uses, ToolWork
<1>2. InsertEvent(r) => req[r].pc \in ToolWork \/ req[r].pc \in {"effect", "event"}
  BY DEF InsertEvent, ToolWork
<1> QED
  BY <1>1, <1>2, RunsWork, MessageWorks, StateWorks, EventWorks, TrailMoves DEF ToolStep

\* What every step of a tool call does to its request.
ToolGoes(r) ==
    /\ Others(r)
    /\ req[r].pc \in ToolPcs \cup {"idle", "returned"}
    /\ req'[r].what \in Asked /\ req'[r].what \in Calls /\ req'[r].what # None
    /\ req'[r].what.kind = "tool"
    /\ req[r].pc = "idle" => req'[r].pc = "tclear"
    /\ req[r].pc # "idle" => req'[r].what = req[r].what
    /\ \/ req'[r].pc \in (ToolPcs \cup {"done"}) \ {"message", "beat"}
       \/ req'[r].pc = "message" /\ req'[r].what.tool = "messages.publish"
       \/ req'[r].pc = "beat" /\ req'[r].what.tool = "agents.heartbeat"
       \/ req'[r].pc = "load" /\ req'[r].what.tool = "notifications.invoke_action"
    /\ req'[r].pc = "complete" => req'[r].out \in Results

\* A tool request moved to a step that fits its tool goes where ToolGoes says.
LEMMA MovedGoes ==
    ASSUME Base, NEW r \in Request, req[r].pc \in ToolPcs \cup {"returned"}, Others(r),
           req'[r].what = req[r].what,
           \/ req'[r].pc \in (ToolPcs \cup {"done"}) \ {"message", "beat"}
           \/ req'[r].pc = "message" /\ req'[r].what.tool = "messages.publish"
           \/ req'[r].pc = "beat" /\ req'[r].what.tool = "agents.heartbeat"
           \/ req'[r].pc = "load" /\ req'[r].what.tool = "notifications.invoke_action",
           req'[r].pc = "complete" => req'[r].out \in Results
    PROVE  ToolGoes(r)
<1>1. req[r].pc # "idle"
  BY DEF ToolPcs
<1> QED
  BY <1>1, AtTool DEF ToolGoes

\* Every step of a tool call leaves its request in shape.
LEMMA ToolGo ==
    ASSUME Base, NEW r \in Request, ToolStep(r)
    PROVE  ToolGoes(r)
<1>1. CASE ToolCall(r)
  <2>1. PICK w \in Calls : w \in Asked /\ Moved(r, w, "tclear", req[r].seen, FALSE, "", "")
    BY <1>1, ToolCallMoves
  <2>2. req[r].pc = "idle" /\ w # None /\ w.kind = "tool"
    BY <1>1, <2>1, NoneIsNoRow DEF ToolCall, Calls
  <2> QED
    BY <2>1, <2>2 DEF ToolGoes, Moved, ToolPcs
<1>2. CASE ClearStaleTool(r)
  BY <1>2, ClearToolMoves, MovedGoes DEF ClearStaleTool, ToolPcs, SteppedTo, Moved
<1>3. CASE InsertTool(r)
  BY <1>3, InsertToolMoves, MovedGoes DEF InsertTool, ToolPcs, SteppedTo, Moved
<1>4. CASE ReadExistingTool(r)
  BY <1>4, ReadToolMoves, MovedGoes DEF ReadExistingTool, ToolPcs, EndedAs, Moved
<1>5. CASE Works(r)
  <2>1. WorksOn(r) /\ req[r].pc \in ToolPcs
    BY <1>5 DEF Works, WorksOn, ToolWork, ToolPcs
  <2> QED
    BY <2>1, MovedGoes DEF WorksOn, ToolPcs
<1>6. CASE Trails(r)
  BY <1>6, MovedGoes DEF Trails, ToolPcs, SteppedTo, Moved
<1>7. CASE InvokeAction(r)
  BY <1>7, InvokeMoves, MovedGoes DEF InvokeAction, Uses, ToolPcs, Moved
<1>8. CASE InvokeReturns(r)
  <2>1. req[r].pc = "returned" /\ "succeeded" \in Results
    BY <1>8 DEF InvokeReturns, Results
  <2> QED
    BY <1>8, <2>1, ReturnMoves, MovedGoes DEF ToolPcs, SteppedTo, CarriedTo, Moved
<1>9. CASE Complete(r)
  <2>1. req[r].pc \in ToolPcs
    BY <1>9 DEF Complete, ToolPcs
  <2>2. PICK pc \in {"effect", "done"} :
          Moved(r, req[r].what, pc, req[r].seen, req[r].late, "", req[r].out)
    BY <1>9, CompletedMoves
  <2>3. Others(r) /\ req'[r].what = req[r].what /\ req'[r].pc \in {"effect", "done"}
    BY <2>2 DEF Moved
  <2>4. req'[r].pc \in (ToolPcs \cup {"done"}) \ {"message", "beat"} /\ req'[r].pc # "complete"
    BY <2>3 DEF ToolPcs
  <2> QED
    BY <2>1, <2>3, <2>4, MovedGoes
<1>10. CASE Release(r)
  BY <1>10, ReleaseMoves, MovedGoes DEF Release, ToolPcs, EndedAs, Moved
<1> QED
  BY <1>1, <1>2, <1>3, <1>4, <1>5, <1>6, <1>7, <1>8, <1>9, <1>10, ToolCases

\* A step of a tool call leaves its request sound and the others alone.
LEMMA ToolSound ==
    ASSUME Base, NEW r \in Request, ToolStep(r)
    PROVE  Others(r) /\ Sound(r)'
<1>1. ToolGoes(r)
  BY ToolGo
<1>2. /\ req'[r].pc \notin {"idle", "lost", "finish", "look"} \cup CommandPcs \cup DelayedPcs
      /\ req'[r].pc \in ToolPcs \cup {"load", "done"}
      /\ "load" \in (ActionPcs \cup {"returned"}) \ {"look"}
  BY <1>1 DEF ToolGoes, ActionPcs, ToolPcs, CommandPcs, DelayedPcs
<1>3. /\ req'[r].what # None /\ req'[r].what.kind = "tool"
      /\ req'[r].pc = "message" => req'[r].what.tool = "messages.publish"
      /\ req'[r].pc = "beat" => req'[r].what.tool = "agents.heartbeat"
      /\ req'[r].pc = "load" => req'[r].what.tool = "notifications.invoke_action"
  BY <1>1 DEF ToolGoes, ToolPcs
<1>4. Shape(req'[r])
  BY <1>2, <1>3 DEF Shape
<1>5. Carries(req[r])'
  BY <1>1, <1>2 DEF ToolGoes, Carries, CommandPcs, DelayedPcs
<1> QED
  BY <1>1, <1>4, <1>5 DEF ToolGoes, Sound

\* What a tool call touches outside the agent's tables.
LEMMA ToolFrame ==
    ASSUME NEW r \in Request, ToolStep(r)
    PROVE  UNCHANGED <<exec, config, aged, history, enabled, caught>>
BY DEF ToolStep, ToolCall, ClearStaleTool, InsertTool, ReadExistingTool, StartAgentRun,
   FinishAgentRun, CheckRun, InsertEvent, PublishNotification, CheckMessageRun, CreateMessage,
   SetState, CreateChannel, CheckPresence, UpsertPresence, InvokeAction, InvokeReturns,
   Complete, Release, toolVars

\* The tables of the tools keep their types.
LEMMA ToolStepTypes ==
    ASSUME Base, NEW r \in Request, ToolStep(r)
    PROVE  ToolTypes'
<1>1. ToolTypes
  BY DEF Base, TypeOK
<1>2. enabled' = enabled /\ caught' = caught
  BY ToolFrame
<1>3. tool' \in [Key -> InvocationRow \cup {None}]
  <2>1. CASE tool' = tool
    BY <1>1, <2>1 DEF ToolTypes
  <2>2. CASE ClearStaleTool(r) \/ InsertTool(r) \/ Complete(r) \/ Release(r)
    BY <2>1, <2>2, ClearToolMoves, InsertToolMoves, CompletedMoves, ReleaseMoves
       DEF ToolRewritten
  <2> QED
    BY <2>1, <2>2, ToolCases DEF ToolCall, ReadExistingTool, Works, Trails, InvokeAction,
       InvokeReturns, toolVars
<1>4. toolLost' \in [Key -> Nat]
  <2>1. CASE toolLost' = toolLost
    BY <1>1, <2>1 DEF ToolTypes
  <2>2. CASE Complete(r)
    <3>1. PICK k \in Key : k = req[r].what.key
      BY <2>2, CompletedMoves
    <3>2. toolLost \in [Key -> Nat] /\ toolLost' \in {toolLost, [toolLost EXCEPT ![k] = @ + 1]}
      BY <1>1, <2>2, <3>1, CompletedMoves DEF ToolTypes
    <3> QED
      BY <3>2, SMT
  <2> QED
    BY <2>1, <2>2, ToolCases DEF ToolCall, ClearStaleTool, InsertTool, ReadExistingTool, Works,
       Trails, InvokeAction, InvokeReturns, Release, toolVars
<1>5. run' \in [Request \cup {Open} -> {"none", "running", "completed", "cancelled"}]
      /\ state' \in {"firing", "resolved"}
  <2>1. CASE run' = run /\ state' = state
    BY <1>1, <2>1 DEF ToolTypes
  <2>2. CASE Works(r)
    BY <1>1, <2>2 DEF Works, Affects, ToolTypes
  <2> QED
    BY <2>1, <2>2, ToolCases DEF ToolCall, ClearStaleTool, InsertTool, data, ReadExistingTool,
       Trails, InvokeAction, InvokeReturns, Complete, Release, toolVars
<1>6. made' \subseteq Calls \X Request
  <2>1. CASE made' = made
    BY <1>1, <2>1 DEF ToolTypes
  <2>2. CASE Works(r)
    <3>1. req[r].pc \in ToolPcs /\ made' \in {made, made \cup {<<req[r].what, r>>}}
      BY <2>2 DEF Works, WorksOn, Affects, ToolWork, ToolPcs
    <3>2. PICK w \in Calls : w = req[r].what
      BY <3>1, AtTool
    <3>3. made \subseteq Calls \X Request /\ made' \in {made, made \cup {<<w, r>>}}
      BY <1>1, <3>1, <3>2 DEF ToolTypes
    <3> QED
      BY <3>3, SMT
  <2> QED
    BY <2>1, <2>2, ToolCases DEF ToolCall, ClearStaleTool, InsertTool, data, ReadExistingTool,
       Trails, InvokeAction, InvokeReturns, Complete, Release, toolVars
<1>7. message' \subseteq [key : Key, id : Request]
  <2>1. CASE message' = message
    BY <1>1, <2>1 DEF ToolTypes
  <2>2. CASE CreateMessage(r)
    <3>1. req[r].pc \in ToolPcs
      BY <2>2 DEF CreateMessage, ToolPcs
    <3>2. PICK k \in Key : k = req[r].what.key
      BY <3>1, AtTool
    <3>3. message' = message \/ message' = message \cup {[key |-> k, id |-> r]}
      BY <2>2, <3>2 DEF CreateMessage
    <3>4. PICK m \in [key : Key, id : Request] : m = [key |-> k, id |-> r]
      OBVIOUS
    <3>5. message \subseteq [key : Key, id : Request]
      BY <1>1 DEF ToolTypes
    <3>6. message' = message \/ message' = message \cup {m}
      BY <3>3, <3>4
    <3> QED
      BY <3>5, <3>6, SMT
  <2> QED
    BY <2>1, <2>2 DEF ToolStep, ToolCall, ClearStaleTool, InsertTool, ReadExistingTool,
       StartAgentRun, FinishAgentRun, CheckRun, InsertEvent, PublishNotification,
       CheckMessageRun, SetState, CreateChannel, CheckPresence, UpsertPresence, InvokeAction,
       InvokeReturns, Complete, Release, toolVars, data
<1>8. channel' \in {channel, TRUE} /\ presence' \in {presence, r} /\ event' \in {event, event \cup {r}}
  BY DEF ToolStep, ToolCall, ClearStaleTool, InsertTool, ReadExistingTool, StartAgentRun,
     FinishAgentRun, CheckRun, InsertEvent, PublishNotification, CheckMessageRun, CreateMessage,
     SetState, CreateChannel, CheckPresence, UpsertPresence, InvokeAction, InvokeReturns,
     Complete, Release, toolVars, data
<1> QED
  BY <1>1, <1>2, <1>3, <1>4, <1>5, <1>6, <1>7, <1>8 DEF ToolTypes

-----------------------------------------------------------------------------
(***************************************************************************)
(* The steps of a slash command and of a delayed response.                 *)
(***************************************************************************)
\* A request in the middle of a command or a delivery.
LEMMA AtSlash ==
    ASSUME Base, NEW r \in Request, req[r].pc \in CommandPcs \cup DelayedPcs
    PROVE  /\ req[r].what \in Asked /\ req[r].what # None
           /\ req[r].what.kind \in {"command", "delayed"} /\ req[r].what.key \in Key
           /\ req[r].pc \in {"resolve", "record", "known", "dispatch"} =>
                req[r].what.kind = "command" /\ req[r].what \in Commands
           /\ req[r].pc \in {"use", "count"} => req[r].what.kind = "delayed"
<1>1. req[r].what \in Asked \cup {None} /\ Shape(req[r])
  BY RequestFields DEF Base
<1>2. /\ req[r].pc \notin {"idle", "lost", "done", "returned"} \cup ActionPcs \cup ToolPcs
      /\ req[r].pc \in {"resolve", "record", "known", "dispatch"} => req[r].pc \notin DelayedPcs
      /\ req[r].pc \in {"use", "count"} => req[r].pc \notin CommandPcs
  BY DEF ActionPcs, ToolPcs, CommandPcs, DelayedPcs
<1>3. /\ req[r].what \in Asked /\ req[r].what # None
      /\ req[r].what.kind \in {"command", "delayed"}
      /\ req[r].pc \in {"resolve", "record", "known", "dispatch"} =>
           req[r].what.kind = "command"
      /\ req[r].pc \in {"use", "count"} => req[r].what.kind = "delayed"
  BY <1>1, <1>2 DEF Shape
<1> QED
  BY <1>3, AskedTypes

EndsAs(r, a) == Moved(r, req[r].what, "done", 0, req[r].late, "", a)

AcceptsAs(r, n) ==
    Moved(r, req[r].what, "respond", n, req[r].late, req[r].out, req[r].ans)

\* A command is late if an equal one was answered "ok" before it arrives.
LEMMA SubmitMoves ==
    ASSUME Base, NEW r \in Request, Submit(r)
    PROVE  \E w \in Asked, late \in BOOLEAN :
              /\ w.kind = "command"
              /\ late = \E q \in Request : req[q].what = w /\ req[q].ans = "ok"
              /\ Moved(r, w, "resolve", req[r].seen, late, "", "")
<1>1. TypeOK /\ asked \in Scenarios /\ "resolve" \in PCs
  BY DEF Base, TypeOK, ActionTypes, PCs
<1>2. PICK w \in asked : w.kind = "command" /\
         req' = [req EXCEPT ![r].what = w, ![r].pc = "resolve",
             ![r].late = \E q \in Request : req[q].what = w /\ req[q].ans = "ok"]
  BY DEF Submit
<1>3. w \in Asked
  BY <1>1, <1>2 DEF Asked
<1>4. PICK late \in BOOLEAN : late = \E q \in Request : req[q].what = w /\ req[q].ans = "ok"
  OBVIOUS
<1>5. Moved(r, w, "resolve", req[r].seen, late, req[r].out, req[r].ans)
  BY <1>1, <1>2, <1>3, <1>4, ArriveLateMoves
<1>6. req[r].out = "" /\ req[r].ans = ""
  BY AtIdle DEF Submit
<1> QED
  BY <1>2, <1>3, <1>4, <1>5, <1>6

\* Resolving answers at once or carries one of the teams that match.
LEMMA ResolveMoves ==
    ASSUME Base, NEW r \in Request, Resolve(r)
    PROVE  \/ Resolved(req[r].what) = {} /\ EndsAs(r, "not found")
           \/ \E t \in Resolved(req[r].what) :
                ~ Decrypts(command[t]) /\ EndsAs(r, "unavailable")
           \/ \E t \in Resolved(req[r].what) :
                t \in Team /\ Decrypts(command[t]) /\ CarriedTo(r, "record", t)
<1>1. TypeOK /\ "not found" \in Answers /\ "unavailable" \in Answers /\ "record" \in PCs
  BY DEF Base, Answers, Words, PCs
<1>2. CASE Resolved(req[r].what) = {}
  BY <1>1, <1>2, EndMoves DEF Resolve, EndsAs
<1>3. CASE Resolved(req[r].what) # {}
  <2>1. PICK t \in Resolved(req[r].what) :
          IF Decrypts(command[t])
          THEN req' = [req EXCEPT ![r].pc = "record", ![r].out = t]
          ELSE End(r, "unavailable")
    BY <1>3 DEF Resolve
  <2>2. t \in Team /\ t \in Outs
    BY DEF Resolved, Defining, Outs
  <2>3. CASE Decrypts(command[t])
    BY <1>1, <2>1, <2>2, <2>3, CarryMoves DEF CarriedTo
  <2>4. CASE ~ Decrypts(command[t])
    BY <1>1, <2>1, <2>4, EndMoves DEF EndsAs
  <2> QED
    BY <2>3, <2>4
<1> QED
  BY <1>2, <1>3

SlashRewritten(k, row) ==
    /\ slash' \in [Key -> SlashRow \cup {None}]
    /\ slash'[k] = row
    /\ \A j \in Key : j # k => slash'[j] = slash[j]

\* An update of one key of the command table leaves the others alone.
LEMMA CommandRewritten ==
    ASSUME Base, NEW k \in Key, NEW row \in SlashRow \cup {None},
           slash' = [slash EXCEPT ![k] = row]
    PROVE  SlashRewritten(k, row)
<1>1. slash \in [Key -> SlashRow \cup {None}]
  BY DEF Base, TypeOK, SlashTypes
<1> QED
  BY <1>1 DEF SlashRewritten

\* The execution that a command records.
LEMMA ExecutionRowTyped ==
    ASSUME Base, NEW r \in Request, req[r].pc = "record"
    PROVE  /\ Execution(r) \in SlashRow /\ Execution(r) # None
           /\ Execution(r).what = req[r].what /\ Execution(r).team = req[r].out
           /\ Execution(r).count = 0 /\ Execution(r).expired = FALSE
<1>1. req[r].what \in Commands /\ req[r].out \in Team
  BY AtSlash DEF Base, Carries, CommandPcs
<1>2. Execution(r) \in SlashRow
  BY <1>1, SMT DEF Execution, SlashRow
<1> QED
  BY <1>2, NoneIsNoRow DEF Execution

\* The record is written if the key is free, and nothing otherwise.
LEMMA RecordMoves ==
    ASSUME Base, NEW r \in Request, RecordCommand(r)
    PROVE  /\ req[r].what.key \in Key
           /\ \/ /\ slash[req[r].what.key] = None /\ SteppedTo(r, "dispatch")
                 /\ SlashRewritten(req[r].what.key, Execution(r))
              \/ slash[req[r].what.key] # None /\ slash' = slash /\ SteppedTo(r, "known")
<1>1. TypeOK /\ "dispatch" \in PCs /\ "known" \in PCs /\ req[r].pc \in CommandPcs
      /\ req[r].pc = "record"
  BY DEF Base, PCs, RecordCommand, CommandPcs
<1>2. PICK k \in Key : k = req[r].what.key
  BY <1>1, AtSlash
<1>3. CASE slash[k] = None /\ slash' = [slash EXCEPT ![k] = Execution(r)] /\ Step(r, "dispatch")
  <2>1. SlashRewritten(k, Execution(r))
    BY <1>1, <1>3, ExecutionRowTyped, CommandRewritten
  <2> QED
    BY <1>1, <1>2, <1>3, <2>1, StepMoves DEF SteppedTo
<1>4. CASE slash[k] # None /\ slash' = slash /\ Step(r, "known")
  BY <1>1, <1>2, <1>4, StepMoves DEF SteppedTo
<1> QED
  BY <1>2, <1>3, <1>4 DEF RecordCommand

\* A repeat of a command whose responses are recorded is answered by a replay.
LEMMA ReplayMoves ==
    ASSUME Base, NEW r \in Request, Replay(r)
    PROVE  \E a \in {"replayed", "error", "empty", "conflict"} :
              /\ EndsAs(r, a)
              /\ (/\ slash[req[r].what.key].what = req[r].what
                  /\ slash[req[r].what.key].team = req[r].out
                  /\ Recording(req[r].what.key) # {}) => a = "replayed"
<1>1. TypeOK /\ {"replayed", "error", "empty", "conflict"} \subseteq Answers
  BY DEF Base, Answers, Words
<1>2. PICK a \in {"replayed", "error", "empty", "conflict"} :
        /\ End(r, a)
        /\ (/\ slash[req[r].what.key].what = req[r].what
            /\ slash[req[r].what.key].team = req[r].out
            /\ Recording(req[r].what.key) # {}) => a = "replayed"
  BY DEF Replay
<1> QED
  BY <1>1, <1>2, EndMoves DEF EndsAs

\* The dispatch fails or is answered with up to MaxValues responses.
LEMMA DispatchMoves ==
    ASSUME Base, NEW r \in Request, Dispatch(r)
    PROVE  EndsAs(r, "bad gateway") \/ \E n \in 1..MaxValues : AcceptsAs(r, n)
<1>1. TypeOK /\ "bad gateway" \in Answers /\ \A n \in 1..MaxValues : n \in Nat
  BY SlashAssumptions, SMT DEF Base, Answers, Words
<1> QED
  BY <1>1, EndMoves, AcceptMoves DEF Dispatch, EndsAs, AcceptsAs

\* A value of the answer is recorded.
LEMMA RespondMoves ==
    ASSUME Base, NEW r \in Request, Respond(r)
    PROVE  /\ req[r].what.key \in Key
           /\ response' = response \cup {<<req[r].what.key, r, req[r].seen>>}
           /\ \/ \E n \in Nat : AcceptsAs(r, n)
              \/ EndsAs(r, "ok")
<1>1. TypeOK /\ "ok" \in Answers /\ req[r].pc = "respond" /\ req[r].pc \in CommandPcs
  BY DEF Base, Answers, Words, Respond, CommandPcs
<1>2. req[r].what.key \in Key /\ req[r].seen \in Nat
  BY <1>1, AtSlash, RequestFields
<1>3. CASE req[r].seen > 1 /\ req' = [req EXCEPT ![r].seen = req[r].seen - 1]
  <2>1. PICK n \in Nat : n = req[r].seen - 1
    BY <1>2, <1>3, SMT
  <2>2. AcceptsAs(r, n)
    BY <1>1, <1>3, <2>1, CountdownMoves DEF AcceptsAs
  <2> QED
    BY <1>2, <2>2 DEF Respond, AddSlashCommandResponse
<1>4. CASE End(r, "ok")
  BY <1>1, <1>2, <1>4, EndMoves DEF EndsAs, Respond, AddSlashCommandResponse
<1> QED
  BY <1>3, <1>4 DEF Respond

\* A delayed response arrives at the response URL of a recorded execution.
LEMMA DeliverMoves ==
    ASSUME Base, NEW r \in Request, Deliver(r)
    PROVE  \E w \in Asked, late \in BOOLEAN :
              /\ w.kind = "delayed" /\ w.key \in Key /\ slash[w.key] # None
              /\ late = slash[w.key].expired
              /\ Moved(r, w, "use", req[r].seen, late, "", "")
<1>1. TypeOK /\ asked \in Scenarios /\ "use" \in PCs
      /\ slash \in [Key -> SlashRow \cup {None}]
  BY DEF Base, TypeOK, ActionTypes, SlashTypes, PCs
<1>2. PICK w \in asked : w.kind = "delayed" /\ slash[w.key] # None /\
         req' = [req EXCEPT ![r].what = w, ![r].pc = "use", ![r].late = slash[w.key].expired]
  BY DEF Deliver
<1>3. w \in Asked
  BY <1>1, <1>2 DEF Asked
<1>4. w.key \in Key
  BY <1>3, AskedTypes
<1>5. slash[w.key] \in SlashRow
  BY <1>1, <1>2, <1>4
<1>6. PICK late \in BOOLEAN : late = slash[w.key].expired
  BY <1>5 DEF SlashRow
<1>7. Moved(r, w, "use", req[r].seen, late, req[r].out, req[r].ans)
  BY <1>1, <1>2, <1>3, <1>6, ArriveLateMoves
<1>8. req[r].out = "" /\ req[r].ans = ""
  BY AtIdle DEF Deliver
<1> QED
  BY <1>2, <1>3, <1>4, <1>6, <1>7, <1>8

\* An execution whose response URL was used once more.
Used(row) == [row EXCEPT !.count = @ + 1]

\* Only the count of uses changes.
LEMMA UsedRow ==
    ASSUME NEW row \in SlashRow
    PROVE  /\ Used(row) \in SlashRow /\ Used(row) # None /\ Used(row).what = row.what
           /\ Used(row).team = row.team /\ Used(row).expired = row.expired
           /\ row.count \in Nat /\ Used(row).count = row.count + 1
<1>1. row.count \in Nat
  BY DEF SlashRow
<1>2. PICK n \in Nat : n = row.count + 1
  BY <1>1, SMT
<1>3. Used(row) = [row EXCEPT !.count = n]
  BY <1>2 DEF Used
<1>4. [row EXCEPT !.count = n] \in SlashRow
  BY DEF SlashRow
<1> QED
  BY <1>1, <1>2, <1>3, <1>4, NoneIsNoRow DEF SlashRow

\* A response URL counts a use: the execution stays.
LEMMA UseCounted ==
    ASSUME Base, NEW k \in Key, slash[k] # None,
           slash' = [slash EXCEPT ![k].count = @ + 1]
    PROVE  slash[k] \in SlashRow /\ SlashRewritten(k, Used(slash[k]))
<1>1. slash \in [Key -> SlashRow \cup {None}]
  BY DEF Base, TypeOK, SlashTypes
<1>2. slash[k] \in SlashRow
  BY <1>1
<1>3. slash' = [slash EXCEPT ![k] = Used(slash[k])]
  BY DEF Used
<1> QED
  BY <1>2, <1>3, UsedRow, CommandRewritten

\* The check of a response URL: with SQLite it also counts.
LEMMA UseMoves ==
    ASSUME Base, NEW r \in Request, UseToken(r)
    PROVE  /\ req[r].what.key \in Key /\ slash[req[r].what.key] # None
           /\ \/ /\ ~ Usable(slash[req[r].what.key]) /\ slash' = slash /\ EndsAs(r, "gone")
              \/ /\ Usable(slash[req[r].what.key]) /\ sqlite
                 /\ SlashRewritten(req[r].what.key, Used(slash[req[r].what.key]))
                 /\ \E n \in Nat : AcceptsAs(r, n)
              \/ /\ Usable(slash[req[r].what.key]) /\ ~ sqlite /\ slash' = slash
                 /\ SteppedTo(r, "count")
<1>1. TypeOK /\ "gone" \in Answers /\ "count" \in PCs /\ req[r].pc = "use"
      /\ req[r].pc \in DelayedPcs
  BY DEF Base, Answers, Words, PCs, UseToken, DelayedPcs
<1>2. PICK k \in Key : k = req[r].what.key
  BY <1>1, AtSlash
<1>3. slash[k] # None
  BY <1>1, <1>2 DEF Base, Carries
<1>4. CASE ~ Usable(slash[k]) /\ slash' = slash /\ End(r, "gone")
  BY <1>1, <1>2, <1>3, <1>4, EndMoves DEF EndsAs
<1>5. CASE /\ Usable(slash[k]) /\ sqlite /\ slash' = [slash EXCEPT ![k].count = @ + 1]
           /\ Accepts(r)
  <2>1. SlashRewritten(k, Used(slash[k]))
    BY <1>3, <1>5, UseCounted
  <2>2. PICK n \in 1..MaxValues : req' = [req EXCEPT ![r].pc = "respond", ![r].seen = n]
    BY <1>5 DEF Accepts
  <2>3. n \in Nat
    BY SlashAssumptions, SMT
  <2>4. AcceptsAs(r, n)
    BY <1>1, <2>2, <2>3, AcceptMoves DEF AcceptsAs
  <2> QED
    BY <1>2, <1>3, <1>5, <2>1, <2>3, <2>4
<1>6. CASE Usable(slash[k]) /\ ~ sqlite /\ slash' = slash /\ Step(r, "count")
  BY <1>1, <1>2, <1>3, <1>6, StepMoves DEF SteppedTo
<1> QED
  BY <1>2, <1>4, <1>5, <1>6 DEF UseToken

\* The later statement that counts, with PostgreSQL.
LEMMA CountMoves ==
    ASSUME Base, NEW r \in Request, CountUse(r)
    PROVE  /\ req[r].what.key \in Key /\ slash[req[r].what.key] # None
           /\ SlashRewritten(req[r].what.key, Used(slash[req[r].what.key]))
           /\ \E n \in Nat : AcceptsAs(r, n)
<1>1. TypeOK /\ req[r].pc = "count" /\ req[r].pc \in DelayedPcs
  BY DEF Base, CountUse, DelayedPcs
<1>2. PICK k \in Key : k = req[r].what.key
  BY <1>1, AtSlash
<1>3. slash[k] # None
  BY <1>1, <1>2 DEF Base, Carries
<1>4. SlashRewritten(k, Used(slash[k]))
  BY <1>2, <1>3, UseCounted DEF CountUse
<1>5. PICK n \in 1..MaxValues : req' = [req EXCEPT ![r].pc = "respond", ![r].seen = n]
  BY DEF CountUse, Accepts
<1>6. n \in Nat
  BY SlashAssumptions, SMT
<1>7. AcceptsAs(r, n)
  BY <1>1, <1>5, <1>6, AcceptMoves DEF AcceptsAs
<1> QED
  BY <1>2, <1>3, <1>4, <1>6, <1>7

\* Executions stay, with their command, team and expiry.
Stays(k) ==
    slash[k] # None =>
        /\ slash'[k] # None /\ slash'[k].what = slash[k].what
        /\ slash'[k].team = slash[k].team /\ slash'[k].expired = slash[k].expired

\* A step of a command or of a delivery only adds an execution or counts a use.
LEMMA SlashStays ==
    ASSUME Base, NEW r \in Request, SlashStep(r)
    PROVE  slash' \in [Key -> SlashRow \cup {None}] /\ \A k \in Key : Stays(k)
<1>1. slash \in [Key -> SlashRow \cup {None}]
  BY DEF Base, TypeOK, SlashTypes
<1>2. CASE slash' = slash
  BY <1>1, <1>2 DEF Stays
<1>3. CASE \E k \in Key : slash[k] = None /\ SlashRewritten(k, Execution(r))
  BY <1>3 DEF SlashRewritten, Stays
<1>4. CASE \E k \in Key : slash[k] # None /\ SlashRewritten(k, Used(slash[k]))
  <2>1. PICK k \in Key : slash[k] # None /\ SlashRewritten(k, Used(slash[k]))
    BY <1>4
  <2>2. slash[k] \in SlashRow
    BY <1>1, <2>1
  <2>3. Used(slash[k]) # None /\ Used(slash[k]).what = slash[k].what
        /\ Used(slash[k]).team = slash[k].team /\ Used(slash[k]).expired = slash[k].expired
    BY <2>2, UsedRow
  <2>4. slash'[k] = Used(slash[k]) /\ \A j \in Key : j # k => slash'[j] = slash[j]
    BY <2>1 DEF SlashRewritten
  <2>5. Stays(k)
    BY <2>3, <2>4 DEF Stays
  <2>6. \A j \in Key : j # k => Stays(j)
    BY <2>4 DEF Stays
  <2> QED
    BY <2>1, <2>5, <2>6 DEF SlashRewritten
<1>5. RecordCommand(r) \/ UseToken(r) \/ CountUse(r) \/ slash' = slash
  BY DEF SlashStep, Submit, Resolve, Replay, Dispatch, Respond, Deliver, slashVars
<1> QED
  BY <1>2, <1>3, <1>4, <1>5, RecordMoves, UseMoves, CountMoves

\* What every step of a command or a delivery does to its request.
SlashGoes(r) ==
    /\ Others(r)
    /\ req[r].pc \in CommandPcs \cup DelayedPcs \cup {"idle"}
    /\ req'[r].what \in Asked /\ req'[r].what # None
    /\ req'[r].what.kind \in {"command", "delayed"} /\ req'[r].what.key \in Key
    /\ req[r].pc # "idle" => req'[r].what = req[r].what
    /\ \/ req'[r].pc = "done"
       \/ req'[r].what.kind = "command" /\ req'[r].pc \in CommandPcs
       \/ req'[r].what.kind = "delayed" /\ req'[r].pc \in DelayedPcs
    /\ req'[r].pc \in {"record", "known", "dispatch"} => req'[r].out \in Team
    /\ req'[r].pc \in {"use", "count", "known", "dispatch", "respond"} =>
         slash'[req'[r].what.key] # None

\* A command or a delivery ends.
LEMMA EndGoes ==
    ASSUME Base, NEW r \in Request, req[r].pc \in CommandPcs \cup DelayedPcs, NEW a,
           EndsAs(r, a)
    PROVE  SlashGoes(r)
<1>1. Others(r) /\ req'[r].what = req[r].what /\ req'[r].pc = "done"
  BY DEF EndsAs, Moved
<1> QED
  BY <1>1, AtSlash DEF SlashGoes

\* A command or a delivery whose execution exists gets values to record.
LEMMA AcceptGoes ==
    ASSUME Base, NEW r \in Request, req[r].pc \in CommandPcs \cup DelayedPcs, NEW n,
           AcceptsAs(r, n), slash[req[r].what.key] # None, Stays(req[r].what.key)
    PROVE  SlashGoes(r)
<1>1. Others(r) /\ req'[r].what = req[r].what /\ req'[r].pc = "respond"
  BY DEF AcceptsAs, Moved
<1>2. slash'[req'[r].what.key] # None
  BY <1>1 DEF Stays
<1> QED
  BY <1>1, <1>2, AtSlash DEF SlashGoes, CommandPcs, DelayedPcs

\* Every step of a command or a delivery leaves its request in shape.
LEMMA SlashGo ==
    ASSUME Base, NEW r \in Request, SlashStep(r)
    PROVE  SlashGoes(r)
<1>0. slash' \in [Key -> SlashRow \cup {None}] /\ \A k \in Key : Stays(k)
  BY SlashStays, SMT
<1>1. CASE Submit(r)
  <2>1. PICK w \in Asked, late \in BOOLEAN :
          w.kind = "command" /\ Moved(r, w, "resolve", req[r].seen, late, "", "")
    BY <1>1, SubmitMoves
  <2>2. req[r].pc = "idle" /\ w # None /\ w.key \in Key
    BY <1>1, NoneIsNoRow, AskedTypes, SMT DEF Submit
  <2> QED
    BY <2>1, <2>2 DEF SlashGoes, Moved, CommandPcs
<1>2. CASE Resolve(r)
  <2>1. req[r].pc \in CommandPcs \cup DelayedPcs /\ req[r].pc = "resolve" /\ req[r].pc # "idle"
    BY <1>2 DEF Resolve, CommandPcs
  <2>2. CASE \E a : EndsAs(r, a)
    BY <2>1, <2>2, EndGoes, SMT
  <2>3. CASE \E t \in Team : CarriedTo(r, "record", t)
    <3>1. PICK t \in Team : CarriedTo(r, "record", t)
      BY <2>3, SMT
    <3>2. Others(r) /\ req'[r].what = req[r].what /\ req'[r].pc = "record" /\ req'[r].out = t
      BY <3>1, SMT DEF CarriedTo, Moved
    <3> QED
      BY <2>1, <3>2, AtSlash, SMT DEF SlashGoes, CommandPcs
  <2> QED
    BY <1>2, <2>2, <2>3, ResolveMoves
<1>3. CASE RecordCommand(r)
  <2>1. req[r].pc \in CommandPcs \cup DelayedPcs /\ req[r].pc = "record" /\ req[r].pc # "idle"
    BY <1>3, SMT DEF RecordCommand, CommandPcs
  <2>2. req[r].out \in Team
    BY <2>1, SMT DEF Base, Carries
  <2>3. PICK k \in Key : k = req[r].what.key
    BY <2>1, AtSlash, SMT
  <2>4. slash'[k] # None /\ (SteppedTo(r, "dispatch") \/ SteppedTo(r, "known"))
    BY <1>0, <1>3, <2>1, <2>3, RecordMoves, ExecutionRowTyped DEF Stays, SlashRewritten
  <2>5. Others(r) /\ req'[r].what = req[r].what /\ req'[r].pc \in {"dispatch", "known"}
        /\ req'[r].out \in Team
    BY <2>2, <2>4, SMT DEF SteppedTo, Moved
  <2> QED
    BY <2>1, <2>3, <2>4, <2>5, AtSlash, SMT DEF SlashGoes, CommandPcs
<1>4. CASE Replay(r)
  <2>1. req[r].pc \in CommandPcs \cup DelayedPcs
    BY <1>4, SMT DEF Replay, CommandPcs
  <2> QED
    BY <1>4, <2>1, ReplayMoves, EndGoes, SMT
<1>5. CASE Dispatch(r)
  <2>1. req[r].pc \in CommandPcs \cup DelayedPcs /\ req[r].pc = "dispatch"
    BY <1>5 DEF Dispatch, CommandPcs
  <2>2. slash[req[r].what.key] # None /\ Stays(req[r].what.key)
    BY <1>0, <2>1, AtSlash, SMT DEF Base, Carries
  <2> QED
    BY <1>5, <2>1, <2>2, DispatchMoves, EndGoes, AcceptGoes
<1>6. CASE Respond(r)
  <2>1. req[r].pc \in CommandPcs \cup DelayedPcs /\ req[r].pc = "respond"
    BY <1>6, SMT DEF Respond, CommandPcs
  <2>2. slash[req[r].what.key] # None /\ Stays(req[r].what.key)
    BY <1>0, <2>1, AtSlash, SMT DEF Base, Carries
  <2> QED
    BY <1>6, <2>1, <2>2, RespondMoves, EndGoes, AcceptGoes, SMT
<1>7. CASE Deliver(r)
  <2>1. PICK w \in Asked, late \in BOOLEAN :
          /\ w.kind = "delayed" /\ w.key \in Key /\ slash[w.key] # None
          /\ Moved(r, w, "use", req[r].seen, late, "", "")
    BY <1>7, DeliverMoves
  <2>2. req[r].pc = "idle" /\ w # None /\ slash'[w.key] # None
    BY <1>0, <1>7, <2>1, NoneIsNoRow DEF Deliver, Stays
  <2> QED
    BY <2>1, <2>2 DEF SlashGoes, Moved, DelayedPcs
<1>8. CASE UseToken(r)
  <2>1. req[r].pc \in CommandPcs \cup DelayedPcs /\ req[r].pc = "use" /\ req[r].pc # "idle"
    BY <1>8, SMT DEF UseToken, DelayedPcs
  <2>2. slash[req[r].what.key] # None /\ Stays(req[r].what.key)
    BY <1>0, <1>8, UseMoves, SMT
  <2>3. CASE SteppedTo(r, "count")
    <3>1. Others(r) /\ req'[r].what = req[r].what /\ req'[r].pc = "count"
          /\ slash'[req'[r].what.key] # None
      BY <2>2, <2>3, SMT DEF SteppedTo, Moved, Stays
    <3> QED
      BY <2>1, <3>1, AtSlash, SMT DEF SlashGoes, DelayedPcs
  <2> QED
    BY <1>8, <2>1, <2>2, <2>3, UseMoves, EndGoes, AcceptGoes, SMT
<1>9. CASE CountUse(r)
  <2>1. req[r].pc \in CommandPcs \cup DelayedPcs /\ req[r].pc = "count"
    BY <1>9, SMT DEF CountUse, DelayedPcs
  <2>2. slash[req[r].what.key] # None /\ Stays(req[r].what.key)
    BY <1>0, <1>9, CountMoves, SMT
  <2> QED
    BY <1>9, <2>1, <2>2, CountMoves, AcceptGoes, SMT
<1> QED
  BY <1>1, <1>2, <1>3, <1>4, <1>5, <1>6, <1>7, <1>8, <1>9, SMT DEF SlashStep

\* A step of a command leaves its own request and the other ones sound.
LEMMA SlashSound ==
    ASSUME Base, NEW r \in Request, SlashStep(r)
    PROVE  Others(r) /\ Sound(r)'
<1>1. SlashGoes(r)
  BY SlashGo
<1>2. /\ req'[r].pc \notin {"idle", "lost", "finish", "look", "message", "beat", "complete"}
      /\ req'[r].pc \in CommandPcs \cup DelayedPcs \cup {"done"}
  BY <1>1 DEF SlashGoes, CommandPcs, DelayedPcs
<1>3. Shape(req'[r])
  BY <1>1, <1>2 DEF SlashGoes, Shape
<1>4. Carries(req[r])'
  BY <1>1, <1>2 DEF SlashGoes, Carries
<1> QED
  BY <1>1, <1>3, <1>4 DEF SlashGoes, Sound

\* What a command touches outside its tables.
LEMMA SlashFrame ==
    ASSUME NEW r \in Request, SlashStep(r)
    PROVE  UNCHANGED <<exec, config, aged, history, sqlite, command>>
BY DEF SlashStep, Submit, Resolve, RecordCommand, Replay, Dispatch, Respond, Deliver, UseToken,
   CountUse, slashVars

\* The tables of the commands keep their types.
LEMMA SlashStepTypes ==
    ASSUME Base, NEW r \in Request, SlashStep(r)
    PROVE  SlashTypes'
<1>1. SlashTypes
  BY DEF Base, TypeOK
<1>2. sqlite' = sqlite /\ command' = command /\ slash' \in [Key -> SlashRow \cup {None}]
  BY SlashFrame, SlashStays
<1>3. called' \in [Key -> Nat]
  <2>1. CASE called' = called
    BY <1>1, <2>1 DEF SlashTypes
  <2>2. CASE Dispatch(r)
    <3>1. req[r].pc \in CommandPcs
      BY <2>2 DEF Dispatch, CommandPcs
    <3>2. PICK k \in Key : k = req[r].what.key
      BY <3>1, AtSlash
    <3>3. called \in [Key -> Nat] /\ called' = [called EXCEPT ![k] = called[k] + 1]
      BY <1>1, <2>2, <3>2 DEF SlashTypes, Dispatch
    <3> QED
      BY <3>3, SMT
  <2> QED
    BY <2>1, <2>2 DEF SlashStep, Submit, Resolve, RecordCommand, Replay, Respond, Deliver,
       UseToken, CountUse, slashVars
<1>4. response' \subseteq Key \X Request \X Nat
  <2>1. CASE response' = response
    BY <1>1, <2>1 DEF SlashTypes
  <2>2. CASE Respond(r)
    <3>1. PICK k \in Key : k = req[r].what.key
      BY <2>2, RespondMoves
    <3>2. PICK n \in Nat : n = req[r].seen
      BY RequestFields DEF Base
    <3>3. response \subseteq Key \X Request \X Nat /\ response' = response \cup {<<k, r, n>>}
      BY <1>1, <2>2, <3>1, <3>2, RespondMoves DEF SlashTypes
    <3> QED
      BY <3>3, SMT
  <2> QED
    BY <2>1, <2>2 DEF SlashStep, Submit, Resolve, RecordCommand, Replay, Dispatch, Deliver,
       UseToken, CountUse, slashVars
<1> QED
  BY <1>1, <1>2, <1>3, <1>4 DEF SlashTypes

-----------------------------------------------------------------------------
(***************************************************************************)
(* Losses, restarts, the passing of time and administration.               *)
(***************************************************************************)
\* A live request has a key; the key of a request that holds a row is one of Key.
LEMMA AtLive ==
    ASSUME Base, NEW r \in Request, Live(r)
    PROVE  req[r].what \in Asked /\ req[r].what # None /\ req[r].what.key \in Key
<1>1. req[r].what \in Asked \cup {None} /\ Shape(req[r])
  BY RequestFields DEF Base
<1>2. req[r].what # None
  BY <1>1 DEF Shape, Live
<1> QED
  BY <1>1, <1>2, AskedTypes

\* Requests that hold a row are live.
LEMMA HoldersLive ==
    ASSUME NEW r \in Request
    PROVE  (Holds(r) => Live(r)) /\ (HoldsTool(r) => Live(r))
BY DEF Holds, HoldsTool, Live

\* Some of the requests are lost and the others go on.
Dropped(r) == req'[r] = Gone \/ req'[r] = req[r]

\* A loss or a restart only drops requests and counts the rows they held.
LEMMA LossTypes ==
    ASSUME Base, req' \in [Request -> RequestState], \A r \in Request : Dropped(r),
           slash' = slash
    PROVE  \A r \in Request : Sound(r)'
<1>1. SUFFICES ASSUME NEW r \in Request PROVE Sound(r)'
  OBVIOUS
<1>2. CASE req'[r] = Gone
  BY <1>2, GoneFields DEF Sound, Carries
<1>3. CASE req'[r] = req[r]
  BY <1>3 DEF Base, Sound, Carries
<1> QED
  BY <1>1, <1>2, <1>3 DEF Dropped

\* A request is lost.
LEMMA LoseMoves ==
    ASSUME Base, NEW r \in Request, ToolLose(r)
    PROVE  /\ Live(r) /\ Others(r) /\ req'[r] = Gone /\ req[r].what.key \in Key
           /\ \A q \in Request : Dropped(q)
           /\ \A k \in Key : lost'[k] = lost[k] + (IF HoldsKey(r, k) THEN 1 ELSE 0)
           /\ \A k \in Key : toolLost'[k] =
                toolLost[k] + (IF HoldsTool(r) /\ req[r].what.key = k THEN 1 ELSE 0)
           /\ lost' \in [Key -> Nat] /\ toolLost' \in [Key -> Nat]
           /\ UNCHANGED <<exec, config, aged, sent, taken, tool, data, enabled, caught>>
<1>1. Live(r) /\ req' = [req EXCEPT ![r] = Gone] /\ TypeOK
      /\ UNCHANGED <<exec, config, aged, sent, taken, tool, data, enabled, caught>>
  BY DEF ToolLose, Lose, Base
<1>2. Others(r) /\ req'[r] = Gone
  BY <1>1, GoneMoves
<1>3. PICK k0 \in Key : k0 = req[r].what.key
  BY <1>1, AtLive
<1>4. lost \in [Key -> Nat] /\ toolLost \in [Key -> Nat]
  BY <1>1 DEF TypeOK, ActionTypes, ToolTypes
<1>5. /\ lost' = IF Holds(r) THEN [lost EXCEPT ![k0] = @ + 1] ELSE lost
      /\ toolLost' = IF HoldsTool(r) THEN [toolLost EXCEPT ![k0] = @ + 1] ELSE toolLost
  BY <1>3 DEF ToolLose, Lose
<1>6. PICK h \in BOOLEAN : h <=> Holds(r)
  OBVIOUS
<1>7. PICK t \in BOOLEAN : t <=> HoldsTool(r)
  OBVIOUS
<1>8. /\ lost' = IF h THEN [lost EXCEPT ![k0] = @ + 1] ELSE lost
      /\ toolLost' = IF t THEN [toolLost EXCEPT ![k0] = @ + 1] ELSE toolLost
  BY <1>5, <1>6, <1>7
<1>9. /\ lost' \in [Key -> Nat] /\ toolLost' \in [Key -> Nat]
      /\ \A k \in Key : lost'[k] = lost[k] + (IF h /\ k0 = k THEN 1 ELSE 0)
      /\ \A k \in Key : toolLost'[k] = toolLost[k] + (IF t /\ k0 = k THEN 1 ELSE 0)
  BY <1>4, <1>8, SMT
<1>10. \A k \in Key : HoldsKey(r, k) <=> (h /\ k0 = k)
  BY <1>3, <1>6 DEF HoldsKey
<1>11. \A q \in Request : Dropped(q)
  BY <1>2 DEF Dropped, Others
<1> QED
  BY <1>1, <1>2, <1>3, <1>7, <1>9, <1>10, <1>11

\* Sets of requests have a size: what a restart adds to the histories of losses.
\* OperationsTheorems proves it from IsFiniteSet(Request).
Sizes == \A S \in SUBSET Request : Cardinality(S) \in Nat /\ (S # {} => Cardinality(S) # 0)

\* The server starts again: every live request is lost.
LEMMA RestartMoves ==
    ASSUME Base, Sizes, ToolRestart
    PROVE  /\ req' \in [Request -> RequestState] /\ \A r \in Request : Dropped(r)
           /\ \A r \in Request : IF Live(r) THEN req'[r] = Gone ELSE req'[r] = req[r]
           /\ lost' \in [Key -> Nat] /\ toolLost' \in [Key -> Nat]
           /\ \A k \in Key :
                lost'[k] = lost[k] + Cardinality({r \in Request : HoldsKey(r, k)})
           /\ \A k \in Key : toolLost'[k] = toolLost[k] +
                Cardinality({r \in Request : HoldsTool(r) /\ req[r].what.key = k})
           /\ seed' \in Seeds /\ edits' = edits + 1
           /\ UNCHANGED <<asked, exec, card, post, target, setting, aged, sent, taken, tool,
                          data, enabled, caught>>
<1>1. TypeOK /\ lost \in [Key -> Nat] /\ toolLost \in [Key -> Nat]
  BY DEF Base, TypeOK, ActionTypes, ToolTypes
<1>2. /\ req' = [r \in Request |-> IF Live(r) THEN Gone ELSE req[r]]
      /\ lost' = [k \in Key |-> lost[k] + Cardinality({r \in Request : HoldsKey(r, k)})]
      /\ toolLost' = [k \in Key |-> toolLost[k] +
           Cardinality({r \in Request : HoldsTool(r) /\ req[r].what.key = k})]
      /\ seed' \in Seeds /\ edits' = edits + 1
      /\ UNCHANGED <<asked, exec, card, post, target, setting, aged, sent, taken, tool,
                     data, enabled, caught>>
  BY DEF ToolRestart, Restart, Edit
<1>3. \A r \in Request : req[r] \in RequestState /\ Gone \in RequestState
  BY <1>1, RequestFields, GoneFields
<1>4. req' \in [Request -> RequestState]
  BY <1>2, <1>3
<1>5. \A r \in Request : IF Live(r) THEN req'[r] = Gone ELSE req'[r] = req[r]
  BY <1>2
<1>6. lost' \in [Key -> Nat]
  <2>1. SUFFICES ASSUME NEW k \in Key
                 PROVE  lost[k] + Cardinality({r \in Request : HoldsKey(r, k)}) \in Nat
    BY <1>2
  <2>2. Cardinality({r \in Request : HoldsKey(r, k)}) \in Nat
    BY DEF Sizes
  <2> QED
    BY <1>1, <2>2, SMT
<1>7. toolLost' \in [Key -> Nat]
  <2>1. SUFFICES ASSUME NEW k \in Key
                 PROVE  toolLost[k] +
                    Cardinality({r \in Request : HoldsTool(r) /\ req[r].what.key = k}) \in Nat
    BY <1>2
  <2>2. Cardinality({r \in Request : HoldsTool(r) /\ req[r].what.key = k}) \in Nat
    BY DEF Sizes
  <2> QED
    BY <1>1, <2>2, SMT
<1>8. /\ \A k \in Key : lost'[k] = lost[k] + Cardinality({r \in Request : HoldsKey(r, k)})
      /\ \A k \in Key : toolLost'[k] = toolLost[k] +
            Cardinality({r \in Request : HoldsTool(r) /\ req[r].what.key = k})
  BY <1>2
<1> QED
  BY <1>2, <1>4, <1>5, <1>6, <1>7, <1>8 DEF Dropped

\* A loss or a restart, for the histories: losing a holder is counted.
Loses == (\E r \in Request : ToolLose(r)) \/ ToolRestart

Counted(q) ==
    /\ (Holds(q) /\ req'[q] = Gone) => lost[Key0(q)] < lost'[Key0(q)]
    /\ (HoldsTool(q) /\ req'[q] = Gone) => toolLost[Key0(q)] < toolLost'[Key0(q)]

\* What the invariants need to know of losses.
LEMMA LossMoves ==
    ASSUME Base, Sizes, Loses
    PROVE  /\ \A q \in Request : Dropped(q) /\ Counted(q)
           /\ \A k \in Key : /\ lost[k] \in Nat /\ lost'[k] \in Nat /\ lost[k] <= lost'[k]
                             /\ toolLost[k] \in Nat /\ toolLost'[k] \in Nat
                             /\ toolLost[k] <= toolLost'[k]
           /\ UNCHANGED <<asked, exec, setting, sent, taken, tool, data, enabled, caught>>
<1>1. lost \in [Key -> Nat] /\ toolLost \in [Key -> Nat]
  BY DEF Base, TypeOK, ActionTypes, ToolTypes
<1>2. CASE \E r \in Request : ToolLose(r)
  <2>1. PICK r \in Request : ToolLose(r)
    BY <1>2
  <2>2. /\ \A k \in Key : lost'[k] = lost[k] + (IF HoldsKey(r, k) THEN 1 ELSE 0)
        /\ \A k \in Key : toolLost'[k] =
             toolLost[k] + (IF HoldsTool(r) /\ req[r].what.key = k THEN 1 ELSE 0)
        /\ Key0(r) \in Key /\ Live(r) /\ Others(r) /\ \A q \in Request : Dropped(q)
    BY <2>1, LoseMoves DEF Key0
  <2>3. \A k \in Key : /\ lost[k] \in Nat /\ lost'[k] \in Nat /\ lost[k] <= lost'[k]
                        /\ toolLost[k] \in Nat /\ toolLost'[k] \in Nat
                        /\ toolLost[k] <= toolLost'[k]
    BY <1>1, <2>2, SMT
  <2>4. /\ Holds(r) => lost'[Key0(r)] = lost[Key0(r)] + 1
        /\ HoldsTool(r) => toolLost'[Key0(r)] = toolLost[Key0(r)] + 1
    BY <2>2 DEF HoldsKey, Key0
  <2>5. Counted(r)
    BY <1>1, <2>2, <2>4, SMT DEF Counted
  <2>6. \A q \in Request : q # r => Counted(q)
    BY <2>2, GoneFields DEF Counted, Others, Holds, HoldsTool
  <2> QED
    BY <2>1, <2>2, <2>3, <2>5, <2>6, LoseMoves DEF config
<1>3. CASE ToolRestart
  <2>1. ASSUME NEW k \in Key
        PROVE  /\ lost[k] \in Nat /\ lost'[k] \in Nat /\ lost[k] <= lost'[k]
               /\ toolLost[k] \in Nat /\ toolLost'[k] \in Nat /\ toolLost[k] <= toolLost'[k]
    <3>1. PICK m \in Nat : m = Cardinality({r \in Request : HoldsKey(r, k)})
      BY DEF Sizes
    <3>2. PICK n \in Nat : n = Cardinality({r \in Request : HoldsTool(r) /\ req[r].what.key = k})
      BY DEF Sizes
    <3>3. lost'[k] = lost[k] + m /\ toolLost'[k] = toolLost[k] + n
      BY <1>3, <3>1, <3>2, RestartMoves
    <3> QED
      BY <1>1, <3>3, SMT
  <2>2. ASSUME NEW q \in Request, Holds(q)
        PROVE  lost[Key0(q)] < lost'[Key0(q)]
    <3>1. PICK k \in Key : k = Key0(q)
      BY <2>2, HoldersLive, AtLive DEF Key0
    <3>2. q \in {r \in Request : HoldsKey(r, k)}
      BY <2>2, <3>1 DEF HoldsKey, Key0
    <3>3. PICK m \in Nat : m = Cardinality({r \in Request : HoldsKey(r, k)}) /\ m # 0
      BY <3>2 DEF Sizes
    <3>4. lost'[k] = lost[k] + m
      BY <1>3, <3>3, RestartMoves
    <3> QED
      BY <1>1, <3>1, <3>3, <3>4, SMT
  <2>3. ASSUME NEW q \in Request, HoldsTool(q)
        PROVE  toolLost[Key0(q)] < toolLost'[Key0(q)]
    <3>1. PICK k \in Key : k = Key0(q)
      BY <2>3, HoldersLive, AtLive DEF Key0
    <3>2. q \in {r \in Request : HoldsTool(r) /\ req[r].what.key = k}
      BY <2>3, <3>1 DEF Key0
    <3>3. PICK m \in Nat : /\ m # 0
            /\ m = Cardinality({r \in Request : HoldsTool(r) /\ req[r].what.key = k})
      BY <3>2 DEF Sizes
    <3>4. toolLost'[k] = toolLost[k] + m
      BY <1>3, <3>3, RestartMoves
    <3> QED
      BY <1>1, <3>1, <3>3, <3>4, SMT
  <2> QED
    BY <1>3, <2>1, <2>2, <2>3, RestartMoves DEF Counted
<1> QED
  BY <1>2, <1>3 DEF Loses

\* A row of more than fifteen minutes, and an expired response URL.
OldRow(row) == IF row = None THEN None ELSE [row EXCEPT !.old = TRUE]
ExpiredRow(row) == IF row = None THEN None ELSE [row EXCEPT !.expired = TRUE]

\* Rows get older and keep everything else.
LEMMA OldRows ==
    /\ \A row \in ExecutionRow : /\ OldRow(row) \in ExecutionRow /\ OldRow(row) # None
                                 /\ OldRow(row).kind = row.kind
                                 /\ OldRow(row).index = row.index
                                 /\ OldRow(row).user = row.user
                                 /\ OldRow(row).status = row.status
    /\ \A row \in InvocationRow : /\ OldRow(row) \in InvocationRow /\ OldRow(row) # None
                                  /\ OldRow(row).args = row.args
                                  /\ OldRow(row).status = row.status
                                  /\ OldRow(row).result = row.result
    /\ \A row \in SlashRow : /\ ExpiredRow(row) \in SlashRow /\ ExpiredRow(row) # None
                             /\ ExpiredRow(row).what = row.what
                             /\ ExpiredRow(row).team = row.team
                             /\ ExpiredRow(row).count = row.count
                             /\ ExpiredRow(row).expired = TRUE
    /\ OldRow(None) = None /\ ExpiredRow(None) = None
<1>1. SUFFICES /\ \A row \in ExecutionRow : row # None
               /\ \A row \in InvocationRow : row # None
               /\ \A row \in SlashRow : row # None
  <2>1. ASSUME NEW row \in ExecutionRow, row # None
        PROVE  [row EXCEPT !.old = TRUE] \in ExecutionRow
    BY <2>1 DEF ExecutionRow
  <2>2. ASSUME NEW row \in InvocationRow, row # None
        PROVE  [row EXCEPT !.old = TRUE] \in InvocationRow
    BY <2>2 DEF InvocationRow
  <2>3. ASSUME NEW row \in SlashRow, row # None
        PROVE  [row EXCEPT !.expired = TRUE] \in SlashRow
    BY <2>3 DEF SlashRow
  <2>4. ASSUME NEW row \in ExecutionRow, row # None
        PROVE  /\ [row EXCEPT !.old = TRUE].kind = row.kind
               /\ [row EXCEPT !.old = TRUE].index = row.index
               /\ [row EXCEPT !.old = TRUE].user = row.user
               /\ [row EXCEPT !.old = TRUE].status = row.status
    BY <2>4 DEF ExecutionRow
  <2>5. ASSUME NEW row \in InvocationRow, row # None
        PROVE  /\ [row EXCEPT !.old = TRUE].args = row.args
               /\ [row EXCEPT !.old = TRUE].status = row.status
               /\ [row EXCEPT !.old = TRUE].result = row.result
    BY <2>5 DEF InvocationRow
  <2>6. ASSUME NEW row \in SlashRow, row # None
        PROVE  /\ [row EXCEPT !.expired = TRUE].what = row.what
               /\ [row EXCEPT !.expired = TRUE].team = row.team
               /\ [row EXCEPT !.expired = TRUE].count = row.count
               /\ [row EXCEPT !.expired = TRUE].expired = TRUE
    BY <2>6 DEF SlashRow
  <2> QED
    BY <2>1, <2>2, <2>3, <2>4, <2>5, <2>6, NoneIsNoRow DEF OldRow, ExpiredRow
<1> QED
  BY NoneIsNoRow

\* Half an hour passes while no request is in progress.
LEMMA TimeMoves ==
    ASSUME Base, TimePasses
    PROVE  /\ \A r \in Request : ~ Live(r)
           /\ exec' \in [Key -> ExecutionRow \cup {None}]
           /\ tool' \in [Key -> InvocationRow \cup {None}]
           /\ slash' \in [Key -> SlashRow \cup {None}]
           /\ \A k \in Key : /\ exec'[k] = OldRow(exec[k]) /\ tool'[k] = OldRow(tool[k])
                             /\ slash'[k] = ExpiredRow(slash[k])
           /\ \A k \in Key : /\ exec'[k] = None <=> exec[k] = None
                             /\ tool'[k] = None <=> tool[k] = None
                             /\ slash'[k] = None <=> slash[k] = None
           /\ aged' = aged + 1
           /\ UNCHANGED <<req, config, history, data, enabled, toolLost, caught, sqlite,
                          command, response, called>>
<1>1. /\ exec \in [Key -> ExecutionRow \cup {None}]
      /\ tool \in [Key -> InvocationRow \cup {None}]
      /\ slash \in [Key -> SlashRow \cup {None}]
  BY DEF Base, TypeOK, ActionTypes, ToolTypes, SlashTypes
<1>2. /\ exec' = Aged(exec) /\ tool' = Aged(tool) /\ slash' = Expired /\ aged' = aged + 1
      /\ \A r \in Request : ~ Live(r)
      /\ UNCHANGED <<req, config, history, data, enabled, toolLost, caught, sqlite,
                     command, response, called>>
  BY DEF TimePasses, ToolAge, Age
<1>3. /\ exec' = [k \in Key |-> OldRow(exec[k])] /\ tool' = [k \in Key |-> OldRow(tool[k])]
      /\ slash' = [k \in Key |-> ExpiredRow(slash[k])]
  BY <1>2 DEF Aged, Expired, OldRow, ExpiredRow
<1>4. ASSUME NEW row \in ExecutionRow \cup {None}
      PROVE  OldRow(row) \in ExecutionRow \cup {None} /\ (OldRow(row) = None <=> row = None)
  BY <1>4, OldRows
<1>5. ASSUME NEW row \in InvocationRow \cup {None}
      PROVE  OldRow(row) \in InvocationRow \cup {None} /\ (OldRow(row) = None <=> row = None)
  BY <1>5, OldRows
<1>6. ASSUME NEW row \in SlashRow \cup {None}
      PROVE  ExpiredRow(row) \in SlashRow \cup {None} /\ (ExpiredRow(row) = None <=> row = None)
  BY <1>6, OldRows
<1>7. /\ exec' \in [Key -> ExecutionRow \cup {None}]
      /\ \A k \in Key : exec'[k] = OldRow(exec[k]) /\ (exec'[k] = None <=> exec[k] = None)
  BY <1>1, <1>3, <1>4
<1>8. /\ tool' \in [Key -> InvocationRow \cup {None}]
      /\ \A k \in Key : tool'[k] = OldRow(tool[k]) /\ (tool'[k] = None <=> tool[k] = None)
  BY <1>1, <1>3, <1>5
<1>9. /\ slash' \in [Key -> SlashRow \cup {None}]
      /\ \A k \in Key : slash'[k] = ExpiredRow(slash[k])
                         /\ (slash'[k] = None <=> slash[k] = None)
  BY <1>1, <1>3, <1>6
<1> QED
  BY <1>2, <1>7, <1>8, <1>9

\* Administration touches the configuration only.
LEMMA AdminTypes ==
    ASSUME Base, AdminNext \/ ImportSlashCommands
    PROVE  /\ ActionTypes'
           /\ UNCHANGED <<asked, req, exec, aged, history>>
<1>1. ActionTypes
  BY DEF Base, TypeOK
<1>2. /\ UNCHANGED <<asked, req, exec, seed, aged, history>> /\ edits' = edits + 1
      /\ setting' \in {setting, EnsureStoredKey} /\ target' \in {target, None, setting'}
      /\ post' \in {post, setting}
      /\ post' = setting => setting # None \/ post' = post
      /\ \/ card' = card
         \/ /\ setting # None
            /\ card' = [id |-> IF card = None THEN 1 ELSE card.id + 1, cipher |-> setting]
  BY DEF AdminNext, SaveActionTarget, DeleteActionTarget, PublishCard, PublishPost,
     ImportSlashCommands, Edit
<1>3. EnsureStoredKey \in Seeds /\ setting' \in Seeds \cup {None}
  BY <1>1, <1>2 DEF EnsureStoredKey, ActionTypes
<1>4. card' \in [id : Nat, cipher : Seeds] \cup {None}
  <2>1. CASE card' = card
    BY <1>1, <2>1 DEF ActionTypes
  <2>2. CASE /\ setting # None
             /\ card' = [id |-> IF card = None THEN 1 ELSE card.id + 1, cipher |-> setting]
    <3>1. card = None \/ card.id \in Nat
      BY <1>1 DEF ActionTypes
    <3>2. PICK n \in Nat : n = IF card = None THEN 1 ELSE card.id + 1
      BY <3>1, SMT
    <3>3. setting \in Seeds
      BY <1>1, <2>2 DEF ActionTypes
    <3>4. card' = [id |-> n, cipher |-> setting]
      BY <2>2, <3>2
    <3> QED
      BY <3>3, <3>4
  <2> QED
    BY <1>2, <2>1, <2>2
<1>5. edits' \in Nat
  BY <1>1, <1>2, SMT DEF ActionTypes
<1> QED
  BY <1>1, <1>2, <1>3, <1>4, <1>5 DEF ActionTypes, history

\* Imported commands are encrypted with the stored key.
LEMMA ImportMoves ==
    ASSUME Base, ImportSlashCommands
    PROVE  /\ command' \in [Team -> Seeds \cup {None}]
           /\ setting' = EnsureStoredKey /\ setting' \in Seeds
           /\ \A t \in Team : command'[t] = command[t] \/ (command[t] = None /\ command'[t] = setting')
           /\ UNCHANGED <<asked, req, exec, card, post, target, seed, aged, history, sqlite,
                          slash, response, called>>
<1>1. command \in [Team -> Seeds \cup {None}] /\ setting \in Seeds \cup {None} /\ seed \in Seeds
  BY DEF Base, TypeOK, ActionTypes, SlashTypes
<1>2. PICK T \in SUBSET Team : setting' = EnsureStoredKey /\ command' = Imported(T)
  BY DEF ImportSlashCommands
<1>3. setting' \in Seeds
  BY <1>1, <1>2 DEF EnsureStoredKey
<1>4. \A t \in Team : command'[t] = command[t] \/ (command[t] = None /\ command'[t] = setting')
  BY <1>2 DEF Imported
<1>5. command' \in [Team -> Seeds \cup {None}]
  BY <1>1, <1>2, <1>3 DEF Imported
<1> QED
  BY <1>2, <1>3, <1>4, <1>5 DEF ImportSlashCommands

\* RevokeAgent cancels the open runs.
LEMMA RevokeTypes ==
    ASSUME Base, RevokeAgent
    PROVE  ActionTypes' /\ ToolTypes'
<1>1. ActionTypes /\ ToolTypes
  BY DEF Base, TypeOK
<1>2. edits' \in Nat
  BY <1>1, SMT DEF ActionTypes, RevokeAgent, Edit
<1>3. run' \in [Request \cup {Open} -> {"none", "running", "completed", "cancelled"}]
  <2>1. /\ run \in [Request \cup {Open} -> {"none", "running", "completed", "cancelled"}]
        /\ run' = [x \in Request \cup {Open} |->
                     IF run[x] = "running" THEN "cancelled" ELSE run[x]]
    BY <1>1 DEF ToolTypes, RevokeAgent
  <2> QED
    BY <2>1
<1>4. caught' \subseteq Request /\ enabled' \in BOOLEAN
  BY DEF RevokeAgent
<1> QED
  BY <1>1, <1>2, <1>3, <1>4 DEF RevokeAgent, ActionTypes, ToolTypes, history

-----------------------------------------------------------------------------
(***************************************************************************)
(* Types and the shape of requests are kept.                               *)
(***************************************************************************)
\* A request that a step leaves alone stays sound: executions are never removed.
LEMMA SoundStays ==
    ASSUME Base, NEW q \in Request, req'[q] = req[q],
           \A k \in Key : slash[k] # None => slash'[k] # None
    PROVE  Sound(q)'
<1>1. Shape(req[q]) /\ Carries(req[q])
  BY DEF Base
<1>2. req[q].pc \in {"use", "count", "known", "dispatch", "respond"} =>
        req[q].what.key \in Key
  BY AtSlash DEF CommandPcs, DelayedPcs
<1>3. Carries(req[q])'
  BY <1>1, <1>2 DEF Carries
<1> QED
  BY <1>1, <1>3 DEF Sound

\* One request moves and the others stay.
LEMMA BaseMoves ==
    ASSUME Base, TypeOK', NEW r \in Request, Others(r), Sound(r)',
           \A k \in Key : slash[k] # None => slash'[k] # None
    PROVE  Base'
<1>1. \A q \in Request : Sound(q)'
  BY SoundStays DEF Others
<1> QED
  BY <1>1 DEF Base, Sound

\* The initial states.
LEMMA BaseInit ==
    ASSUME OperationsInit
    PROVE  Base
<1>1. \A r \in Request : req[r] = Idle
  BY DEF OperationsInit, ActionInit
<1>2. /\ Idle.what = None /\ Idle.pc = "idle" /\ Idle.seen = 0 /\ Idle.late = FALSE
      /\ Idle.out = "" /\ Idle.ans = ""
  BY DEF Idle
<1>3. "" \in Outs /\ "" \in Answers /\ "idle" \in PCs /\ 0 \in Nat
  BY SMT DEF Words, Answers, Outs, PCs
<1>4. Idle \in RequestState
  BY <1>3 DEF Idle, RequestState
<1>5. \A r \in Request : Shape(req[r]) /\ Carries(req[r])
  BY <1>1, <1>2 DEF Shape, Carries
<1>6. ActionTypes
  <2>1. /\ asked \in Scenarios /\ req \in [Request -> RequestState] /\ seed \in Seeds
        /\ exec \in [Key -> ExecutionRow \cup {None}]
    BY <1>4 DEF OperationsInit, ActionInit
  <2>2. setting \in Seeds \cup {None} /\ target \in Seeds \cup {None} /\ post \in Seeds \cup {None}
    BY DEF OperationsInit, ActionInit
  <2>3. card \in [id : Nat, cipher : Seeds] \cup {None}
    <3>1. card = None \/ (setting \in Seeds /\ card = [id |-> 1, cipher |-> setting])
      BY DEF OperationsInit, ActionInit
    <3>2. CASE card = None
      BY <3>2
    <3>3. CASE setting \in Seeds /\ card = [id |-> 1, cipher |-> setting]
      BY <3>3, SMT
    <3> QED
      BY <3>1, <3>2, <3>3
  <2>4. edits \in Nat /\ aged \in Nat /\ sent \in [Key -> Nat] /\ lost \in [Key -> Nat]
        /\ taken \subseteq Key \X Op
    <3>1. /\ edits = 0 /\ aged = 0 /\ sent = [k \in Key |-> 0] /\ lost = [k \in Key |-> 0]
          /\ taken = {}
      BY DEF OperationsInit, ActionInit
    <3> QED
      BY <3>1, SMT
  <2> QED
    BY <2>1, <2>2, <2>3, <2>4 DEF ActionTypes
<1>7. ToolTypes
  <2>1. /\ tool = [k \in Key |-> None]
        /\ run = [x \in Request \cup {Open} |-> IF x = Open THEN "running" ELSE "none"]
        /\ state = "firing" /\ message = {} /\ channel = FALSE /\ presence = None
        /\ enabled = TRUE /\ made = {} /\ event = {} /\ caught = {}
        /\ toolLost = [k \in Key |-> 0]
    BY DEF OperationsInit, ToolInit
  <2>2. toolLost \in [Key -> Nat]
    BY <2>1, SMT
  <2> QED
    BY <2>1, <2>2 DEF ToolTypes
<1>8. SlashTypes
  <2>1. /\ sqlite \in BOOLEAN /\ slash = [k \in Key |-> None] /\ response = {}
        /\ called = [k \in Key |-> 0]
    BY DEF OperationsInit, SlashInit
  <2>2. command \in [Team -> Seeds \cup {None}]
    <3>1. setting \in Seeds \cup {None}
      BY DEF OperationsInit, ActionInit
    <3> QED
      BY <3>1 DEF OperationsInit, SlashInit
  <2>3. called \in [Key -> Nat]
    BY <2>1, SMT
  <2> QED
    BY <2>1, <2>2, <2>3 DEF SlashTypes
<1> QED
  BY <1>5, <1>6, <1>7, <1>8 DEF Base, TypeOK

\* Every step.
LEMMA BaseStep ==
    ASSUME Base, Sizes, [OperationsNext]_<<actionVars, toolVars, slashVars>>
    PROVE  Base'
<1>1. ActionTypes /\ ToolTypes /\ SlashTypes
  BY DEF Base, TypeOK
<1>2. CASE \E r \in Request : ToolStep(r) /\ UNCHANGED slashVars
  <2>1. PICK r \in Request : ToolStep(r) /\ UNCHANGED slashVars
    BY <1>2
  <2>2. SlashTypes' /\ slash' = slash
    BY <1>1, <2>1 DEF SlashTypes, slashVars
  <2>3. Others(r) /\ Sound(r)'
    BY <2>1, ToolSound
  <2>4. ActionTypes'
    BY <1>1, <2>1, <2>3, ToolFrame DEF ActionTypes, Others, config, history
  <2>5. TypeOK'
    BY <2>1, <2>2, <2>4, ToolStepTypes DEF TypeOK
  <2> QED
    BY <2>2, <2>3, <2>5, BaseMoves
<1>3. CASE \E r \in Request : ToolLose(r) /\ UNCHANGED slashVars
  <2>1. PICK r \in Request : ToolLose(r) /\ UNCHANGED slashVars
    BY <1>3
  <2>2. SlashTypes' /\ slash' = slash
    BY <1>1, <2>1 DEF SlashTypes, slashVars
  <2>3. ActionTypes' /\ ToolTypes' /\ \A q \in Request : Dropped(q)
    BY <1>1, <2>1, LoseMoves DEF ActionTypes, ToolTypes, Others, config, data
  <2>4. \A q \in Request : Sound(q)'
    BY <2>2, <2>3, LossTypes DEF ActionTypes
  <2> QED
    BY <2>2, <2>3, <2>4 DEF Base, TypeOK, Sound
<1>4. CASE \E r \in Request : ActionStep(r) /\ UNCHANGED <<toolVars, slashVars>>
  <2>1. PICK r \in Request : ActionStep(r) /\ UNCHANGED <<toolVars, slashVars>>
    BY <1>4
  <2>2. SlashTypes' /\ slash' = slash
    BY <1>1, <2>1 DEF SlashTypes, slashVars
  <2>3. ToolTypes'
    BY <1>1, <2>1 DEF ToolTypes, toolVars
  <2>4. TypeOK'
    BY <2>1, <2>2, <2>3, ActionStepTypes DEF TypeOK
  <2> QED
    BY <2>1, <2>2, <2>4, ActionSound, BaseMoves
<1>5. CASE \E r \in Request : SlashStep(r) /\ UNCHANGED toolVars
  <2>1. PICK r \in Request : SlashStep(r) /\ UNCHANGED toolVars
    BY <1>5
  <2>2. ToolTypes'
    BY <1>1, <2>1 DEF ToolTypes, toolVars
  <2>3. Others(r) /\ Sound(r)'
    BY <2>1, SlashSound
  <2>4. ActionTypes'
    BY <1>1, <2>1, <2>3, SlashFrame DEF ActionTypes, Others, config, history
  <2>5. TypeOK'
    BY <2>1, <2>2, <2>4, SlashStepTypes DEF TypeOK
  <2>6. \A k \in Key : slash[k] # None => slash'[k] # None
    BY <2>1, SlashStays DEF Stays
  <2> QED
    BY <2>3, <2>5, <2>6, BaseMoves
<1>6. CASE TimePasses
  <2>1. aged' \in Nat
    BY <1>1, <1>6, TimeMoves, SMT DEF ActionTypes
  <2>2. ActionTypes'
    BY <1>1, <1>6, <2>1, TimeMoves DEF ActionTypes, config, history
  <2>3. ToolTypes' /\ SlashTypes'
    BY <1>1, <1>6, TimeMoves DEF ToolTypes, SlashTypes, data
  <2>4. \A q \in Request : req'[q] = req[q]
    BY <1>6, TimeMoves
  <2>5. \A k \in Key : slash[k] # None => slash'[k] # None
    BY <1>6, TimeMoves
  <2>6. \A q \in Request : Sound(q)'
    BY <2>4, <2>5, SoundStays
  <2> QED
    BY <2>2, <2>3, <2>6 DEF Base, TypeOK, Sound
<1>7. CASE AdminNext /\ UNCHANGED <<toolVars, slashVars>>
  <2>1. ToolTypes' /\ SlashTypes' /\ slash' = slash
    BY <1>1, <1>7 DEF ToolTypes, SlashTypes, toolVars, slashVars
  <2>2. ActionTypes' /\ req' = req
    BY <1>7, AdminTypes
  <2>3. \A q \in Request : Sound(q)'
    BY <2>1, <2>2, SoundStays
  <2> QED
    BY <2>1, <2>2, <2>3 DEF Base, TypeOK, Sound
<1>8. CASE ImportSlashCommands /\ UNCHANGED toolVars
  <2>1. ToolTypes'
    BY <1>1, <1>8 DEF ToolTypes, toolVars
  <2>2. ActionTypes' /\ req' = req
    BY <1>8, AdminTypes
  <2>3. SlashTypes' /\ slash' = slash
    BY <1>1, <1>8, ImportMoves DEF SlashTypes
  <2>4. \A q \in Request : Sound(q)'
    BY <2>2, <2>3, SoundStays
  <2> QED
    BY <2>1, <2>2, <2>3, <2>4 DEF Base, TypeOK, Sound
<1>9. CASE RevokeAgent /\ UNCHANGED slashVars
  <2>1. SlashTypes' /\ slash' = slash
    BY <1>1, <1>9 DEF SlashTypes, slashVars
  <2>2. req' = req
    BY <1>9 DEF RevokeAgent
  <2>3. \A q \in Request : Sound(q)'
    BY <2>1, <2>2, SoundStays
  <2> QED
    BY <1>9, <2>1, <2>3, RevokeTypes DEF Base, TypeOK, Sound
<1>10. CASE ToolRestart /\ UNCHANGED slashVars
  <2>1. SlashTypes' /\ slash' = slash
    BY <1>1, <1>10 DEF SlashTypes, slashVars
  <2>2. edits' \in Nat
    BY <1>1, <1>10, RestartMoves, SMT DEF ActionTypes
  <2>3. ActionTypes' /\ ToolTypes'
    BY <1>1, <1>10, <2>2, RestartMoves DEF ActionTypes, ToolTypes, data
  <2>4. \A q \in Request : Sound(q)'
    BY <1>10, <2>1, RestartMoves, LossTypes
  <2> QED
    BY <2>1, <2>3, <2>4 DEF Base, TypeOK, Sound
<1>11. CASE UNCHANGED <<actionVars, toolVars, slashVars>>
  <2>1. TypeOK' /\ req' = req /\ slash' = slash
    BY <1>1, <1>11, SMTT(30) DEF TypeOK, ActionTypes, ToolTypes, SlashTypes, actionVars, toolVars,
       slashVars
  <2>2. \A q \in Request : Sound(q)'
    BY <2>1, SoundStays
  <2> QED
    BY <2>1, <2>2 DEF Base, Sound
<1> QED
  BY <1>2, <1>3, <1>4, <1>5, <1>6, <1>7, <1>8, <1>9, <1>10, <1>11 DEF OperationsNext

-----------------------------------------------------------------------------
(***************************************************************************)
(* The steps of the system, by what they may change.                       *)
(***************************************************************************)
Manages ==
    \/ AdminNext /\ UNCHANGED <<toolVars, slashVars>>
    \/ ImportSlashCommands /\ UNCHANGED toolVars
    \/ RevokeAgent /\ UNCHANGED slashVars
    \/ UNCHANGED <<actionVars, toolVars, slashVars>>

\* Every step is one of six kinds.
LEMMA StepKinds ==
    ASSUME [OperationsNext]_<<actionVars, toolVars, slashVars>>
    PROVE  \/ \E r \in Request : ActionStep(r) /\ UNCHANGED <<toolVars, slashVars>>
           \/ \E r \in Request : ToolStep(r) /\ UNCHANGED slashVars
           \/ \E r \in Request : SlashStep(r) /\ UNCHANGED toolVars
           \/ Loses /\ UNCHANGED slashVars
           \/ TimePasses
           \/ Manages
BY DEF OperationsNext, Loses, Manages

\* Administration leaves requests, rows and histories alone.
LEMMA ManageMoves ==
    ASSUME Base, Manages
    PROVE  UNCHANGED <<asked, req, exec, sent, taken, lost, tool, state, message, channel,
                       presence, made, event, toolLost, sqlite, slash, response, called>>
<1>1. CASE AdminNext /\ UNCHANGED <<toolVars, slashVars>>
  BY <1>1, AdminTypes DEF history, toolVars, slashVars
<1>2. CASE ImportSlashCommands /\ UNCHANGED toolVars
  BY <1>2, ImportMoves DEF history, toolVars
<1>3. CASE RevokeAgent /\ UNCHANGED slashVars
  BY <1>3 DEF RevokeAgent, history, slashVars
<1>4. CASE UNCHANGED <<actionVars, toolVars, slashVars>>
  BY <1>4 DEF actionVars, toolVars, slashVars
<1> QED
  BY <1>1, <1>2, <1>3, <1>4 DEF Manages

-----------------------------------------------------------------------------
(***************************************************************************)
(* Commands: dispatched once, answered from the record.                    *)
(***************************************************************************)
\* The team a command was resolved to defines it, and stays the one to run it.
RunsFor(w, t) == t \in Team /\ command[t] # None /\ (w.team # None => t = w.team)

\* Tokens are encrypted with the stored key, so that a restart with another
\* seed does not lose them.
Keyed == \A t \in Team : command[t] # None => setting # None /\ command[t] = setting

Executed(k) == slash[k] # None =>
    slash[k].what.key = k /\ RunsFor(slash[k].what, slash[k].team)

AnsweredOK(w) == slash[w.key] # None /\ slash[w.key].what = w /\ Recording(w.key) # {}

Contested == \E t, u \in Team : t # u /\ command[t] # None /\ command[u] # None

IsCommand(q) == req[q].what # None /\ req[q].what.kind = "command"

\* A command answered, and one that repeats it, has its execution on record.
AnsweredAt(q) == IsCommand(q) =>
    /\ req[q].ans = "ok" => AnsweredOK(req[q].what)
    /\ req[q].late =>
         /\ AnsweredOK(req[q].what)
         /\ req[q].pc \in {"resolve", "record", "known", "done"}
         /\ req[q].pc \in {"record", "known"} => req[q].out = slash[Key0(q)].team
         /\ req[q].pc = "done" => \/ req[q].ans = "replayed"
                                  \/ /\ req[q].ans = "not found"
                                     /\ req[q].what.team = None /\ Contested

\* A command runs for its team; the one to dispatch has not been dispatched.
CommandAt(q) ==
    /\ req[q].pc \in {"record", "known", "dispatch"} => RunsFor(req[q].what, req[q].out)
    /\ req[q].pc = "dispatch" => called[Key0(q)] = 0
    /\ (IsCommand(q) /\ req[q].pc \in {"dispatch", "respond"}) =>
         slash[Key0(q)].what = req[q].what

OneDispatcher ==
    \A r, q \in Request : (req[r].pc = "dispatch" /\ req[q].pc = "dispatch"
                             /\ Key0(r) = Key0(q)) => r = q

CalledOnce == \A k \in Key : called[k] <= 1 /\ (slash[k] = None => called[k] = 0)

Runs ==
    /\ Keyed /\ (\A k \in Key : Executed(k)) /\ OneDispatcher /\ CalledOnce
    /\ \A q \in Request : CommandAt(q) /\ AnsweredAt(q)

\* The tables of commands only grow.
Grown ==
    /\ \A k \in Key : slash[k] # None =>
         /\ slash'[k] # None /\ slash'[k].what = slash[k].what
         /\ slash'[k].team = slash[k].team
    /\ \A t \in Team : command[t] # None => command'[t] # None
    /\ response \subseteq response'

\* What is on record stays on record.
LEMMA AnsweredStays ==
    ASSUME Grown, NEW w, w.key \in Key, AnsweredOK(w)
    PROVE  slash'[w.key] # None /\ slash'[w.key].what = w /\ Recording(w.key)' # {}
<1>1. PICK k \in Key : k = w.key
  OBVIOUS
<1>2. PICK p \in response : p[1] = k
  BY <1>1 DEF AnsweredOK, Recording
<1>3. p \in response' /\ Recording(k)' # {}
  BY <1>2 DEF Grown, Recording
<1> QED
  BY <1>1, <1>3 DEF AnsweredOK, Grown

\* A request that stands still is as right as before.
LEMMA KeptCommand ==
    ASSUME Base, Grown, NEW q \in Request, CommandAt(q), AnsweredAt(q), req'[q] = req[q],
           req[q].pc = "dispatch" => called'[Key0(q)] = 0
    PROVE  CommandAt(q)' /\ AnsweredAt(q)'
<1>1. IsCommand(q) => Key0(q) \in Key
  BY RequestFields, AskedTypes DEF Base, IsCommand, Key0
<1>2. req[q].pc \in {"dispatch", "respond"} => slash[Key0(q)] # None
  BY DEF Base, Carries, Key0
<1>3. CommandAt(q)'
  <2>1. req[q].pc \in {"record", "known", "dispatch"} => RunsFor(req[q].what, req[q].out)'
    BY DEF CommandAt, RunsFor, Grown
  <2>2. (IsCommand(q) /\ req[q].pc \in {"dispatch", "respond"}) =>
           slash'[Key0(q)].what = req[q].what
    BY <1>1, <1>2 DEF CommandAt, Grown
  <2> QED
    BY <2>1, <2>2 DEF CommandAt, RunsFor, IsCommand, Key0
<1>4. ASSUME IsCommand(q)
      PROVE  AnsweredAt(q)'
  <2>1. PICK w : w = req[q].what
    OBVIOUS
  <2>2. w.key \in Key /\ w.key = Key0(q)
    BY <1>1, <1>4, <2>1 DEF Key0
  <2>3. AnsweredOK(w) => AnsweredOK(w)' /\ slash'[w.key].team = slash[w.key].team
    BY <2>2, AnsweredStays DEF AnsweredOK, Grown
  <2>4. Contested => Contested'
    BY DEF Contested, Grown
  <2> QED
    BY <1>4, <2>1, <2>2, <2>3, <2>4 DEF AnsweredAt, IsCommand, Key0, AnsweredOK
<1>5. ASSUME ~ IsCommand(q)
      PROVE  AnsweredAt(q)'
  BY <1>5 DEF AnsweredAt, IsCommand
<1> QED
  BY <1>3, <1>4, <1>5

\* Requests that are not for commands.
Foreign(q) == ~ IsCommand(q) /\ req[q].pc \notin {"record", "known", "dispatch"}

\* A request that is no command satisfies what is said of commands.
LEMMA ForeignFine ==
    ASSUME NEW q \in Request, Foreign(q)'
    PROVE  CommandAt(q)' /\ AnsweredAt(q)'
BY DEF Foreign, CommandAt, AnsweredAt, IsCommand

\* The tables of commands after any step that leaves the requests to dispatch
\* alone.
LEMMA RunsKept ==
    ASSUME Base, Runs, Grown, Keyed', called' = called,
           \A k \in Key : slash[k] = None => slash'[k] = None,
           \A q \in Request : req'[q] = req[q] \/ Foreign(q)'
    PROVE  Runs'
<1>1. \A q \in Request : CommandAt(q)' /\ AnsweredAt(q)'
  <2>1. SUFFICES ASSUME NEW q \in Request
                 PROVE  CommandAt(q)' /\ AnsweredAt(q)'
    OBVIOUS
  <2>2. CommandAt(q) /\ AnsweredAt(q)
    BY DEF Runs
  <2> QED
    BY <2>2, KeptCommand, ForeignFine DEF CommandAt
<1>2. \A k \in Key : Executed(k)'
  BY DEF Runs, Executed, RunsFor, Grown
<1>3. OneDispatcher'
  BY DEF Runs, OneDispatcher, Foreign, Key0
<1>4. CalledOnce'
  BY DEF Runs, CalledOnce, Grown
<1> QED
  BY <1>1, <1>2, <1>3, <1>4 DEF Runs

\* Steps of clicks and tool calls, losses, time and administration keep what
\* commands rely on.
LEMMA RunsOutside ==
    ASSUME Base, Sizes, Runs,
           \/ \E r \in Request : (ActionStep(r) \/ ToolStep(r)) /\ UNCHANGED slashVars
           \/ Loses /\ UNCHANGED slashVars
           \/ TimePasses
           \/ Manages
    PROVE  Runs'
<1>1. ASSUME UNCHANGED slashVars, setting' = setting,
             \A q \in Request : req'[q] = req[q] \/ Foreign(q)'
      PROVE  Runs'
  <2>1. Keyed' /\ Grown /\ called' = called /\ \A k \in Key : slash[k] = None => slash'[k] = None
    BY <1>1 DEF slashVars, Runs, Keyed, Grown
  <2> QED
    BY <1>1, <2>1, RunsKept
<1>2. CASE \E r \in Request : (ActionStep(r) \/ ToolStep(r)) /\ UNCHANGED slashVars
  <2>1. PICK r \in Request : (ActionStep(r) \/ ToolStep(r)) /\ UNCHANGED slashVars
    BY <1>2
  <2>2. CASE ActionStep(r)
    <3>1. /\ Others(r) /\ req'[r].what.kind \in {"click", "tool"}
          /\ req'[r].pc \in ActionPcs \cup {"returned", "done"}
      <4>1. ActionGoes(r)
        BY <2>2, ActionGo
      <4>2. req'[r].what.kind \in {"click", "tool"}
        BY <4>1 DEF ActionGoes
      <4>3. req'[r].pc \in ActionPcs \cup {"returned", "done"}
        BY <4>1 DEF ActionGoes, ActionPcs
      <4> QED
        BY <4>1, <4>2, <4>3 DEF ActionGoes
    <3>2. Foreign(r)'
      BY <3>1 DEF Foreign, IsCommand, ActionPcs
    <3>3. setting' = setting
      BY <2>2 DEF ActionStep, Click, LoadCard, LoadPost, LookForResult, ClearStale,
         InsertExecution, ReadExisting, Prepare, CallTarget, Finish, config
    <3> QED
      BY <1>1, <2>1, <3>1, <3>2, <3>3 DEF Others
  <2>3. CASE ToolStep(r)
    <3>1. /\ Others(r) /\ req'[r].what.kind = "tool"
          /\ req'[r].pc \in ToolPcs \cup {"load", "done"}
      BY <2>3, ToolGo DEF ToolGoes, ToolPcs
    <3>2. Foreign(r)'
      BY <3>1 DEF Foreign, IsCommand, ToolPcs
    <3>3. setting' = setting
      BY <2>3, ToolFrame DEF config
    <3> QED
      BY <1>1, <2>1, <3>1, <3>2, <3>3 DEF Others
  <2> QED
    BY <2>1, <2>2, <2>3
<1>3. CASE Loses /\ UNCHANGED slashVars
  <2>1. setting' = setting /\ \A q \in Request : req'[q] = Gone \/ req'[q] = req[q]
    BY <1>3, LossMoves DEF Dropped
  <2>2. \A q \in Request : req'[q] = Gone => Foreign(q)'
    BY GoneFields DEF Foreign, IsCommand
  <2> QED
    BY <1>1, <1>3, <2>1, <2>2
<1>4. CASE TimePasses
  <2>1. /\ req' = req /\ command' = command /\ response' = response /\ called' = called
        /\ setting' = setting
        /\ \A k \in Key : slash'[k] = ExpiredRow(slash[k]) /\ (slash'[k] = None <=> slash[k] = None)
    BY <1>4, TimeMoves DEF config
  <2>2. slash \in [Key -> SlashRow \cup {None}]
    BY DEF Base, TypeOK, SlashTypes
  <2>3. \A k \in Key : slash[k] # None =>
          /\ slash'[k] # None /\ slash'[k].what = slash[k].what
          /\ slash'[k].team = slash[k].team
    BY <2>1, <2>2, OldRows
  <2>4. Grown /\ Keyed'
    BY <2>1, <2>3 DEF Grown, Runs, Keyed
  <2> QED
    BY <2>1, <2>4, RunsKept
<1>5. CASE Manages
  <2>1. UNCHANGED <<req, slash, response, called>>
    BY <1>5, ManageMoves
  <2>2. setting # None => setting' = setting
    BY <1>5 DEF Manages, AdminNext, SaveActionTarget, DeleteActionTarget, PublishCard,
       PublishPost, ImportSlashCommands, RevokeAgent, EnsureStoredKey, config, actionVars
  <2>3. \/ command' = command
        \/ /\ setting' # None
           /\ \A t \in Team : \/ command'[t] = command[t]
                              \/ command[t] = None /\ command'[t] = setting'
    BY <1>5, ImportMoves, NoneIsNoRow DEF Manages, slashVars
  <2>4. Keyed' /\ Grown
    BY <2>1, <2>2, <2>3 DEF Runs, Keyed, Grown
  <2> QED
    BY <2>1, <2>4, RunsKept
<1> QED
  BY <1>2, <1>3, <1>4, <1>5

\* A step of a command or a delivery only adds to the tables.
LEMMA SlashGrows ==
    ASSUME Base, NEW r \in Request, SlashStep(r)
    PROVE  Grown
<1>1. command' = command /\ \A k \in Key : Stays(k)
  BY SlashFrame, SlashStays
<1>2. response \subseteq response'
  BY DEF SlashStep, Submit, Resolve, RecordCommand, Replay, Dispatch, Respond, Deliver,
     UseToken, CountUse, slashVars, AddSlashCommandResponse
<1> QED
  BY <1>1, <1>2 DEF Grown, Stays

\* A delivery is not about a command.
LEMMA DeliveryForeign ==
    ASSUME Base, NEW r \in Request, SlashStep(r), ~ IsCommand(r), ~ Submit(r)
    PROVE  Foreign(r)'
<1>1. SlashGoes(r)
  BY SlashGo
<1>2. req'[r].what.kind = "delayed"
  <2>1. CASE req[r].pc = "idle"
    <3>1. Deliver(r)
      BY <2>1 DEF SlashStep, Resolve, RecordCommand, Replay, Dispatch, Respond, UseToken,
         CountUse
    <3> QED
      BY <3>1, DeliverMoves DEF Moved
  <2>2. CASE req[r].pc # "idle"
    BY <1>1, <2>2, AtSlash DEF SlashGoes, IsCommand
  <2> QED
    BY <2>1, <2>2
<1>3. req'[r].pc \in DelayedPcs \cup {"done"}
  BY <1>1, <1>2 DEF SlashGoes
<1> QED
  BY <1>2, <1>3 DEF Foreign, IsCommand, DelayedPcs

\* A team that runs a recorded command is the one a repetition resolves to.
LEMMA ResolvedAgain ==
    ASSUME Runs, NEW w, w.key \in Key, AnsweredOK(w)
    PROVE  /\ \A t \in Resolved(w) : t = slash[w.key].team
           /\ Resolved(w) = {} => w.team = None /\ Contested
<1>1. PICK T \in Team : T = slash[w.key].team /\ command[T] # None /\ (w.team # None => T = w.team)
  BY DEF Runs, Executed, RunsFor, AnsweredOK
<1>2. T \in Defining
  BY <1>1 DEF Defining
<1>3. ASSUME NEW t \in Resolved(w)
      PROVE  t = T
  <2>1. CASE w.team # None
    BY <1>1, <1>3, <2>1 DEF Resolved
  <2>2. CASE w.team = None
    <3>1. Defining = {t}
      BY <1>3, <2>2 DEF Resolved
    <3> QED
      BY <1>2, <3>1
  <2> QED
    BY <2>1, <2>2
<1>4. ASSUME Resolved(w) = {}
      PROVE  w.team = None /\ Contested
  <2>1. w.team = None
    BY <1>1, <1>2, <1>4 DEF Resolved
  <2>2. Defining # {T}
    BY <1>2, <1>4, <2>1 DEF Resolved
  <2>3. PICK u \in Defining : u # T
    BY <1>2, <2>2, SMT
  <2> QED
    BY <1>1, <2>1, <2>3 DEF Contested, Defining
<1> QED
  BY <1>1, <1>3, <1>4

\* Every step of a command leaves its request as it should be.
LEMMA CommandGoes ==
    ASSUME Base, Runs, NEW r \in Request, SlashStep(r), IsCommand(r) \/ Submit(r)
    PROVE  CommandAt(r)' /\ AnsweredAt(r)'
<1>1. /\ Grown /\ CommandAt(r) /\ AnsweredAt(r) /\ command' = command /\ setting' = setting
  BY SlashGrows, SlashFrame DEF Runs, config
<1>2. CASE Submit(r)
  <2>1. PICK w \in Asked, late \in BOOLEAN :
          /\ w.kind = "command"
          /\ late = \E q \in Request : req[q].what = w /\ req[q].ans = "ok"
          /\ Moved(r, w, "resolve", req[r].seen, late, "", "")
    BY <1>2, SubmitMoves
  <2>2. req'[r].what = w /\ req'[r].pc = "resolve" /\ req'[r].late = late /\ req'[r].ans = ""
    BY <2>1 DEF Moved
  <2>3. w # None /\ w.key \in Key
    BY NoneIsNoRow, AskedTypes
  <2>4. late => AnsweredOK(w)
    BY <2>1, <2>3 DEF Runs, AnsweredAt, IsCommand
  <2>5. late => AnsweredOK(w)'
    BY <1>1, <2>3, <2>4, AnsweredStays DEF AnsweredOK
  <2> QED
    BY <2>2, <2>5 DEF CommandAt, AnsweredAt, IsCommand
<1>3. CASE ~ Submit(r)
  <2>0. IsCommand(r)
    BY <1>3, SMT
  <2>1. PICK w \in Asked : w = req[r].what
    BY <2>0, RequestFields DEF Base, IsCommand
  <2>2. w.key \in Key /\ w.key = Key0(r) /\ w # None /\ w.kind = "command"
    BY <2>0, <2>1, AskedTypes DEF Key0, IsCommand
  <2>3. SlashGoes(r) /\ req[r].pc \in CommandPcs /\ req'[r].what = w
    <3>1. SlashGoes(r) /\ Shape(req[r]) /\ req[r].pc # "idle"
      BY <2>0, SlashGo DEF Base, Shape, IsCommand
    <3>2. req[r].pc \in CommandPcs
      BY <2>1, <2>2, <3>1 DEF SlashGoes, Shape, ActionPcs, ToolPcs, CommandPcs, DelayedPcs
    <3> QED
      BY <2>1, <3>1, <3>2 DEF SlashGoes
  <2>4. AnsweredOK(w) => AnsweredOK(w)' /\ slash'[w.key].team = slash[w.key].team
    BY <1>1, <2>2, AnsweredStays DEF AnsweredOK, Grown
  <2>5. req[r].pc # "done" /\ (req[r].late => AnsweredOK(w)) /\ (req[r].ans = "ok" => AnsweredOK(w))
    BY <1>1, <2>0, <2>1, <2>3 DEF AnsweredAt, CommandPcs
  <2>6. ASSUME NEW a, EndsAs(r, a), a = "ok" => AnsweredOK(w)',
               req[r].late => \/ a = "replayed"
                              \/ a = "not found" /\ w.team = None /\ Contested
        PROVE  CommandAt(r)' /\ AnsweredAt(r)'
    <3>1. req'[r].pc = "done" /\ req'[r].late = req[r].late /\ req'[r].ans = a
      BY <2>6 DEF EndsAs, Moved
    <3>2. Contested => Contested'
      BY <1>1 DEF Contested
    <3> QED
      BY <2>3, <2>4, <2>5, <2>6, <3>1, <3>2 DEF CommandAt, AnsweredAt
  <2>7. ASSUME NEW n, AcceptsAs(r, n), req[r].pc \in {"dispatch", "respond"}
        PROVE  CommandAt(r)' /\ AnsweredAt(r)'
    <3>1. req'[r].pc = "respond" /\ req'[r].late = req[r].late /\ req'[r].ans = req[r].ans
      BY <2>7 DEF AcceptsAs, Moved
    <3>2. ~ req[r].late
      BY <1>1, <2>0, <2>7 DEF AnsweredAt
    <3>3. slash[w.key] # None /\ slash[w.key].what = w
      BY <1>1, <2>0, <2>1, <2>2, <2>7 DEF CommandAt, Base, Carries
    <3>4. slash'[w.key].what = w
      BY <1>1, <2>2, <3>3 DEF Grown
    <3> QED
      BY <2>2, <2>3, <2>4, <2>5, <3>1, <3>2, <3>4 DEF CommandAt, AnsweredAt, Key0
  <2>8. CASE Resolve(r)
    <3>1. CASE Resolved(w) = {} /\ EndsAs(r, "not found")
      BY <2>2, <2>5, <2>6, <3>1, ResolvedAgain
    <3>2. ASSUME NEW t \in Resolved(w)
          PROVE  t \in Team /\ command[t] # None /\ (w.team # None => t = w.team) /\ Decrypts(command[t])
      BY <3>2 DEF Resolved, Defining, Runs, Keyed, Decrypts
    <3>3. CASE \E t \in Resolved(w) : CarriedTo(r, "record", t)
      <4>1. PICK t \in Resolved(w) : CarriedTo(r, "record", t)
        BY <3>3
      <4>2. /\ req'[r].pc = "record" /\ req'[r].late = req[r].late /\ req'[r].ans = req[r].ans
            /\ req'[r].out = t
        BY <4>1 DEF CarriedTo, Moved
      <4>3. RunsFor(w, t)'
        BY <1>1, <3>2 DEF RunsFor
      <4>4. req[r].late => t = slash'[w.key].team
        BY <2>2, <2>4, <2>5, ResolvedAgain
      <4>5. CommandAt(r)'
        BY <2>3, <4>2, <4>3 DEF CommandAt, RunsFor
      <4>6. AnsweredAt(r)'
        BY <2>2, <2>3, <2>4, <2>5, <4>2, <4>4 DEF AnsweredAt, Key0
      <4> QED
        BY <4>5, <4>6
    <3> QED
      BY <2>1, <2>8, <3>1, <3>2, <3>3, ResolveMoves
  <2>9. CASE RecordCommand(r)
    <3>1. req[r].pc = "record" /\ RunsFor(w, req[r].out)
      BY <1>1, <2>1, <2>9 DEF RecordCommand, CommandAt
    <3>2. PICK t : t = req[r].out
      OBVIOUS
    <3>0. RunsFor(w, t)'
      BY <1>1, <3>1, <3>2 DEF RunsFor
    <3>3. ASSUME NEW pc, SteppedTo(r, pc)
          PROVE  /\ req'[r].pc = pc /\ req'[r].late = req[r].late /\ req'[r].ans = req[r].ans
                 /\ req'[r].out = req[r].out
      BY <3>3 DEF SteppedTo, Moved
    <3>4. CASE slash[w.key] = None /\ SteppedTo(r, "dispatch") /\ SlashRewritten(w.key, Execution(r))
      <4>1. slash'[w.key].what = w /\ ~ AnsweredOK(w)
        BY <2>1, <3>1, <3>4, ExecutionRowTyped DEF SlashRewritten, AnsweredOK
      <4>2. called'[w.key] = 0
        BY <2>2, <2>9, <3>4 DEF Runs, CalledOnce, RecordCommand
      <4>3. CommandAt(r)'
        BY <2>2, <2>3, <3>0, <3>2, <3>3, <3>4, <4>1, <4>2 DEF CommandAt, Key0, RunsFor
      <4>4. AnsweredAt(r)'
        BY <2>3, <2>5, <3>3, <3>4, <4>1 DEF AnsweredAt
      <4> QED
        BY <4>3, <4>4
    <3>5. CASE slash[w.key] # None /\ slash' = slash /\ SteppedTo(r, "known")
      <4>0. /\ req'[r].pc = "known" /\ req'[r].late = req[r].late /\ req'[r].ans = req[r].ans
            /\ req'[r].out = req[r].out
        BY <3>3, <3>5
      <4>1. CommandAt(r)'
        BY <2>3, <3>0, <3>2, <4>0 DEF CommandAt, RunsFor
      <4>2. req[r].late => req[r].out = slash'[w.key].team
        BY <1>1, <2>0, <2>2, <3>1, <3>5 DEF AnsweredAt
      <4>4. AnsweredAt(r)'
        BY <2>2, <2>3, <2>4, <2>5, <4>0, <4>2 DEF AnsweredAt, Key0
      <4> QED
        BY <4>1, <4>4
    <3> QED
      BY <2>1, <2>9, <3>4, <3>5, RecordMoves
  <2>10. CASE Replay(r)
    <3>1. req[r].pc = "known"
      BY <2>10 DEF Replay
    <3>2. req[r].late => /\ slash[w.key].what = w /\ slash[w.key].team = req[r].out
                         /\ Recording(w.key) # {}
      BY <1>1, <2>0, <2>1, <2>2, <3>1 DEF AnsweredAt, AnsweredOK
    <3>3. PICK a \in {"replayed", "error", "empty", "conflict"} :
             EndsAs(r, a) /\ (req[r].late => a = "replayed")
      BY <2>1, <2>10, <3>2, ReplayMoves
    <3> QED
      BY <2>6, <3>3
  <2>11. CASE Dispatch(r)
    <3>1. req[r].pc = "dispatch"
      BY <2>11 DEF Dispatch
    <3>2. ~ req[r].late
      BY <1>1, <2>0, <3>1 DEF AnsweredAt
    <3> QED
      BY <2>6, <2>7, <2>11, <3>1, <3>2, DispatchMoves
  <2>12. CASE Respond(r)
    <3>1. req[r].pc = "respond" /\ response' = response \cup {<<w.key, r, req[r].seen>>}
      BY <2>1, <2>12, RespondMoves DEF Respond
    <3>2. ~ req[r].late
      BY <1>1, <2>0, <3>1 DEF AnsweredAt
    <3>3. slash[w.key] # None /\ slash[w.key].what = w
      BY <1>1, <2>0, <2>1, <2>2, <3>1 DEF CommandAt, Base, Carries
    <3>4. slash'[w.key] # None /\ slash'[w.key].what = w
      BY <1>1, <2>2, <3>3 DEF Grown
    <3>5. Recording(w.key)' # {}
      <4>1. PICK p : p = <<w.key, r, req[r].seen>>
        OBVIOUS
      <4>2. p[1] = w.key /\ p \in response'
        BY <3>1, <4>1, SMT
      <4> QED
        BY <4>2 DEF Recording
    <3>6. AnsweredOK(w)'
      BY <3>4, <3>5 DEF AnsweredOK
    <3> QED
      BY <2>6, <2>7, <2>12, <3>1, <3>2, <3>6, RespondMoves
  <2>13. ~ (Deliver(r) \/ UseToken(r) \/ CountUse(r))
    BY <2>3 DEF Deliver, UseToken, CountUse, CommandPcs
  <2> QED
    BY <1>3, <2>8, <2>9, <2>10, <2>11, <2>12, <2>13 DEF SlashStep
<1> QED
  BY <1>2, <1>3

\* Only a command that records its execution goes on to dispatch it.
LEMMA DispatcherNew ==
    ASSUME Base, NEW r \in Request, SlashStep(r)
    PROVE  /\ req'[r].pc = "dispatch" =>
                /\ req[r].pc = "record" /\ slash[Key0(r)] = None /\ req'[r].what = req[r].what
           /\ \A k \in Key : slash[k] = None =>
                \/ slash'[k] = None
                \/ req[r].pc = "record" /\ k = Key0(r) /\ slash'[k] = Execution(r)
<1>1. ASSUME NEW a, EndsAs(r, a)
      PROVE  req'[r].pc = "done"
  BY <1>1 DEF EndsAs, Moved
<1>2. ASSUME NEW n, AcceptsAs(r, n)
      PROVE  req'[r].pc = "respond"
  BY <1>2 DEF AcceptsAs, Moved
<1>3. CASE RecordCommand(r)
  <2>1. req[r].pc = "record" /\ Key0(r) \in Key
    BY <1>3, RecordMoves DEF RecordCommand, Key0
  <2>2. CASE /\ slash[req[r].what.key] = None /\ SteppedTo(r, "dispatch")
             /\ SlashRewritten(req[r].what.key, Execution(r))
    BY <2>1, <2>2 DEF SteppedTo, Moved, SlashRewritten, Key0
  <2>3. CASE slash' = slash /\ SteppedTo(r, "known")
    BY <2>3 DEF SteppedTo, Moved
  <2> QED
    BY <1>3, <2>2, <2>3, RecordMoves
<1>4. CASE Submit(r) \/ Resolve(r) \/ Replay(r) \/ Dispatch(r) \/ Respond(r) \/ Deliver(r)
  <2>1. slash' = slash
    BY <1>4 DEF Submit, Resolve, Replay, Dispatch, Respond, Deliver, slashVars
  <2>2. req'[r].pc # "dispatch"
    <3>1. CASE Submit(r) \/ Deliver(r)
      BY <3>1, SubmitMoves, DeliverMoves DEF Moved
    <3>2. CASE Resolve(r)
      BY <1>1, <3>2, ResolveMoves DEF CarriedTo, Moved
    <3>3. CASE Replay(r)
      BY <1>1, <3>3, ReplayMoves
    <3>4. CASE Dispatch(r) \/ Respond(r)
      BY <1>1, <1>2, <3>4, DispatchMoves, RespondMoves
    <3> QED
      BY <1>4, <3>1, <3>2, <3>3, <3>4
  <2> QED
    BY <2>1, <2>2
<1>5. CASE UseToken(r) \/ CountUse(r)
  <2>1. req'[r].pc # "dispatch"
    BY <1>1, <1>2, <1>5, UseMoves, CountMoves DEF SteppedTo, Moved
  <2>2. \A k \in Key : slash[k] = None => slash'[k] = None
    <3>1. slash' = slash \/ \E j \in Key : slash[j] # None /\ SlashRewritten(j, Used(slash[j]))
      BY <1>5, UseMoves, CountMoves
    <3> QED
      BY <3>1 DEF SlashRewritten
  <2> QED
    BY <2>1, <2>2
<1> QED
  BY <1>3, <1>4, <1>5 DEF SlashStep

\* Every step of a command or a delivery keeps what commands rely on.
LEMMA RunsSlash ==
    ASSUME Base, Runs, NEW r \in Request, SlashStep(r)
    PROVE  Runs'
<1>1. Grown /\ command' = command /\ setting' = setting /\ Others(r)
  BY SlashGrows, SlashFrame, SlashGo DEF config, SlashGoes
<1>2. called \in [Key -> Nat]
  BY DEF Base, TypeOK, SlashTypes
<1>3. \/ called' = called
      \/ /\ req[r].pc = "dispatch" /\ Key0(r) \in Key /\ slash[Key0(r)] # None
         /\ called' = [called EXCEPT ![Key0(r)] = @ + 1]
  <2>1. CASE Dispatch(r)
    <3>1. req[r].pc = "dispatch" /\ req[r].pc \in CommandPcs
      BY <2>1 DEF Dispatch, CommandPcs
    <3> QED
      BY <2>1, <3>1, AtSlash DEF Dispatch, Base, Carries, Key0
  <2>2. CASE ~ Dispatch(r)
    BY <2>2 DEF SlashStep, Submit, Resolve, RecordCommand, Replay, Respond, Deliver, UseToken,
       CountUse, slashVars
  <2> QED
    BY <2>1, <2>2
<1>4. CommandAt(r)' /\ AnsweredAt(r)'
  BY CommandGoes, DeliveryForeign, ForeignFine
<1>5. ASSUME NEW q \in Request, q # r
      PROVE  CommandAt(q)' /\ AnsweredAt(q)'
  <2>1. req'[q] = req[q] /\ CommandAt(q) /\ AnsweredAt(q)
    BY <1>1, <1>5 DEF Others, Runs
  <2>2. ASSUME req[q].pc = "dispatch"
        PROVE  called'[Key0(q)] = 0
    <3>1. called[Key0(q)] = 0
      BY <2>1, <2>2 DEF CommandAt
    <3>2. Key0(q) \in Key
      BY <2>2, AtSlash DEF Key0, CommandPcs
    <3>3. req[r].pc = "dispatch" => Key0(q) # Key0(r)
      BY <1>5, <2>2 DEF Runs, OneDispatcher
    <3> QED
      BY <1>2, <1>3, <3>1, <3>2, <3>3
  <2> QED
    BY <1>1, <2>1, <2>2, KeptCommand
<1>6. Keyed'
  BY <1>1 DEF Runs, Keyed
<1>7. ASSUME NEW k \in Key
      PROVE  Executed(k)'
  <2>1. CASE slash[k] # None
    BY <1>1, <2>1 DEF Runs, Executed, RunsFor, Grown
  <2>2. CASE req[r].pc = "record" /\ k = Key0(r) /\ slash'[k] = Execution(r)
    <3>1. RunsFor(req[r].what, req[r].out)
      BY <2>2 DEF Runs, CommandAt
    <3>2. /\ slash'[k].what = req[r].what /\ slash'[k].team = req[r].out
          /\ req[r].what.key = k
      BY <2>2, ExecutionRowTyped DEF Key0
    <3> QED
      BY <1>1, <3>1, <3>2 DEF Executed, RunsFor
  <2> QED
    BY <2>1, <2>2, DispatcherNew DEF Executed
<1>8. OneDispatcher'
  <2>1. ASSUME NEW q \in Request, q # r, req[q].pc = "dispatch", req'[r].pc = "dispatch"
        PROVE  Key0(q) # Key0(r)'
    <3>1. slash[Key0(q)] # None
      BY <2>1 DEF Base, Carries, Key0
    <3> QED
      BY <2>1, <3>1, DispatcherNew DEF Key0
  <2>2. \A q \in Request : q # r => req'[q] = req[q]
    BY <1>1 DEF Others
  <2> QED
    BY <2>1, <2>2 DEF Runs, OneDispatcher, Key0
<1>9. CalledOnce'
  <2>1. \A k \in Key : called[k] \in Nat /\ called[k] <= 1 /\ (slash[k] = None => called[k] = 0)
    BY <1>2 DEF Runs, CalledOnce
  <2>2. \A k \in Key : slash'[k] = None => slash[k] = None
    BY <1>1 DEF Grown
  <2>3. req[r].pc = "dispatch" => called[Key0(r)] = 0
    BY DEF Runs, CommandAt
  <2>4. CASE called' = called
    BY <2>1, <2>2, <2>4 DEF CalledOnce
  <2>5. CASE /\ req[r].pc = "dispatch" /\ Key0(r) \in Key /\ slash[Key0(r)] # None
             /\ called' = [called EXCEPT ![Key0(r)] = @ + 1]
    <3>1. PICK k \in Key : k = Key0(r)
      BY <2>5
    <3>2. called' = [called EXCEPT ![k] = 1]
      <4>1. called[k] = 0 /\ called' = [called EXCEPT ![k] = called[k] + 1]
        BY <2>3, <2>5, <3>1
      <4>2. called[k] + 1 = 1
        BY <4>1, SMT
      <4> QED
        BY <4>1, <4>2
    <3>3. called'[k] = 1 /\ \A j \in Key : j # k => called'[j] = called[j]
      BY <1>2, <3>2
    <3>4. \A j \in Key : called'[j] <= 1
      BY <2>1, <3>3, SMT
    <3> QED
      BY <2>1, <2>2, <2>5, <3>1, <3>3, <3>4 DEF CalledOnce
  <2> QED
    BY <1>3, <2>4, <2>5
<1> QED
  BY <1>4, <1>5, <1>6, <1>7, <1>8, <1>9 DEF Runs

\* What commands rely on, after every step.
LEMMA RunsStep ==
    ASSUME Base, Sizes, Runs, [OperationsNext]_<<actionVars, toolVars, slashVars>>
    PROVE  Runs'
<1>1. ASSUME NEW r \in Request, ActionStep(r) /\ UNCHANGED <<toolVars, slashVars>>
      PROVE  Runs'
  BY <1>1, RunsOutside
<1> QED
  BY <1>1, RunsOutside, RunsSlash, StepKinds

\* At first nothing is recorded, and a command is encrypted with the stored key.
LEMMA RunsInit ==
    ASSUME OperationsInit
    PROVE  Runs
<1>1. \A r \in Request : req[r].what = None /\ req[r].pc = "idle"
  BY DEF OperationsInit, ActionInit, Idle
<1>2. \A k \in Key : slash[k] = None /\ called[k] = 0
  BY DEF OperationsInit, SlashInit
<1>3. Keyed
  BY DEF OperationsInit, SlashInit, Keyed
<1>4. CalledOnce
  BY <1>2, SMT DEF CalledOnce
<1> QED
  BY <1>1, <1>2, <1>3, <1>4 DEF Runs, Executed, OneDispatcher, CommandAt, AnsweredAt, IsCommand
=============================================================================
