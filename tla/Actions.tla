------------------------------- MODULE Actions -------------------------------
(***************************************************************************)
(* Actions on cards: a click makes the server call a registered target     *)
(* once per Idempotency-Key (internal/server/actions.go and the            *)
(* action_executions table of internal/store/store.go).                    *)
(*                                                                         *)
(* A request is a goroutine; every SQL statement and the callback are      *)
(* steps of their own.  There are two notifications: one with a native     *)
(* card and one from a Mattermost post with interactive attachments.       *)
(* AgentTools and SlashCommands add requests of other kinds to req.        *)
(***************************************************************************)
EXTENDS Naturals, FiniteSets

CONSTANTS
    Request,   \* bound: the requests that arrive, each handled once
    Key,       \* the Idempotency-Keys clients choose
    Op,        \* the actions on the two notifications
    User,      \* the users
    Scenarios, \* sets of requests that are made together
    Operators, \* the users with the operator role in the channel
    Seeds,     \* values of TINTWIRE_ACTION_KEY, one per start of the server
    MaxEdits,  \* bound: administration and publishing steps
    MaxAged    \* bound: how often half an hour passes

None == [none |-> TRUE]

\* Index and attachment numbers as parseBoundedIndex accepts them.
ASSUME ActionAssumptions ==
    /\ IsFiniteSet(Request)
    /\ Operators \subseteq User
    /\ Op \subseteq [kind : {"http"}, index : 0..100]
              \cup [kind : {"mattermost"}, attachment : 0..100, action : 0..100]
    /\ \A w \in UNION Scenarios : w.kind = "click" =>
         w \in [kind : {"click"}, key : Key, op : Op, user : User]
    /\ MaxEdits \in Nat /\ MaxAged \in Nat
    /\ None \notin Seeds /\ None \notin UNION Scenarios

VARIABLES
    asked,   \* the requests of this behaviour: one of Scenarios
    req,     \* req[r]: what request r asks for and how far it is
    exec,    \* action_executions by operation_key
    card,    \* the native card: the action's id and the key of its context
    post,    \* the Mattermost post: the key of its actions' contexts
    target,  \* the registered target: the key of its credentials
    setting, \* the stored action_encryption_key
    seed,    \* TINTWIRE_ACTION_KEY of the running server
    edits,   \* number of administration steps so far
    aged,    \* number of half hours so far
    sent,    \* history: sent[k] callbacks carried key k
    taken,   \* history: <<k, op>> whose callback the target acted on
    lost     \* history: lost[k] requests ended between reserving and recording

config == <<asked, card, post, target, setting, seed, edits>>
history == <<sent, taken, lost>>
actionVars == <<asked, req, exec, card, post, target, setting, seed, edits, aged, sent,
                taken, lost>>

Idle == [what |-> None, pc |-> "idle", seen |-> 0, late |-> FALSE,
         out |-> "", ans |-> ""]

\* The behaviour has requests of this kind: what no request looks at stays fixed.
Asks(kind) == \E w \in asked : w.kind = kind

ActionInit ==
    /\ asked \in Scenarios
    /\ req = [r \in Request |-> Idle]
    /\ exec = [k \in Key |-> None]
    /\ seed \in Seeds
    /\ \/ /\ setting = None /\ card = None /\ post = None /\ target = None
       \/ /\ Asks("click") /\ setting \in Seeds /\ target = setting
          /\ \/ post = None /\ card = None /\ seed = setting
             \/ post = setting /\ card = [id |-> 1, cipher |-> setting]
       \/ /\ Asks("command") /\ setting \in Seeds
          /\ card = None /\ post = None /\ target = None
    /\ edits = 0 /\ aged = 0
    /\ sent = [k \in Key |-> 0]
    /\ taken = {}
    /\ lost = [k \in Key |-> 0]

Step(r, pc) == req' = [req EXCEPT ![r].pc = pc]

\* A click answers its client; a tool call goes on with the result.
Answer(r, a) ==
    req' = [req EXCEPT ![r].ans = a, ![r].out = "", ![r].seen = 0,
                       ![r].pc = IF req[r].what.kind = "tool" THEN "returned" ELSE "done"]

ActionOf(w) == IF w.kind = "tool" THEN w.args.op ELSE w.op

-----------------------------------------------------------------------------
(***************************************************************************)
(* The encryption key and the registered target.                           *)
(***************************************************************************)
Edit == edits < MaxEdits /\ edits' = edits + 1

\* The key is stored once; a later start with another seed keeps it.
EnsureStoredKey == IF setting # None THEN setting ELSE seed

SaveActionTarget ==
    /\ Edit
    /\ setting' = EnsureStoredKey
    /\ target' = setting'
    /\ UNCHANGED <<asked, req, exec, card, post, seed, aged, history>>

DeleteActionTarget ==
    /\ Edit
    /\ target # None
    /\ target' = None
    /\ UNCHANGED <<asked, req, exec, card, post, setting, seed, aged, history>>

\* A producer posts or replaces the native card.  Contexts are encrypted with
\* the stored key: without one the post is refused.
PublishCard ==
    /\ Edit
    /\ setting # None
    /\ card' = [id |-> IF card = None THEN 1 ELSE card.id + 1, cipher |-> setting]
    /\ UNCHANGED <<asked, req, exec, post, target, setting, seed, aged, history>>

\* A bot posts interactive attachments: their URL must be a registered target.
PublishPost ==
    /\ Edit
    /\ post = None /\ target # None /\ setting # None
    /\ post' = setting
    /\ UNCHANGED <<asked, req, exec, card, target, setting, seed, aged, history>>

Decrypts(cipher) == setting # None /\ cipher = setting

-----------------------------------------------------------------------------
(***************************************************************************)
(* action_executions.                                                      *)
(***************************************************************************)
Index_Hundred(op) ==
    IF op.kind = "http" THEN op.index ELSE 10000 + op.attachment * 100 + op.action

Index(op) ==
    IF op.kind = "http" THEN op.index ELSE 10000 + op.attachment * 101 + op.action

\* Latest results: the attachments of the post with a successful execution.
Completed ==
    {(exec[k].index - 10000) \div 101 :
        k \in {j \in Key : exec[j] # None /\ exec[j].index >= 10000
                                          /\ exec[j].status = "succeeded"}}

Row(r) == [kind |-> ActionOf(req[r].what).kind, index |-> Index(ActionOf(req[r].what)),
           user |-> req[r].what.user, status |-> "running", old |-> FALSE]

SameOperation(a, b) == a.kind = b.kind /\ a.index = b.index /\ a.user = b.user

\* Reserve, first statement: a running row of more than 15 minutes is dropped.
ClearStale(r) ==
    /\ req[r].pc = "clear"
    /\ LET k == req[r].what.key IN
       exec' = [exec EXCEPT ![k] = IF @ # None /\ @.status = "running" /\ @.old
                                   THEN None ELSE @]
    /\ Step(r, "insert")
    /\ UNCHANGED <<config, aged, history>>

\* Second statement: INSERT, refused by the primary key if there is a row.
InsertExecution(r) ==
    /\ req[r].pc = "insert"
    /\ LET k == req[r].what.key IN
       \/ /\ exec[k] = None
          /\ exec' = [exec EXCEPT ![k] = Row(r)]
          /\ Step(r, "prepare")
       \/ /\ exec[k] # None
          /\ exec' = exec
          /\ Step(r, "existing")
    /\ UNCHANGED <<config, aged, history>>

\* Third: what is known of the earlier request with the key.
ReadExisting(r) ==
    /\ req[r].pc = "existing"
    /\ LET row == exec[req[r].what.key] IN
       Answer(r, IF row = None THEN "error"
                 ELSE IF SameOperation(row, Row(r)) THEN row.status ELSE "conflict")
    /\ UNCHANGED <<exec, config, aged, history>>

\* Mutant: a failed action frees its key.
Finish_FreeFailed(r) ==
    /\ req[r].pc = "finish"
    /\ exec' = [exec EXCEPT ![req[r].what.key] =
                    IF req[r].out = "failed" THEN None ELSE [@ EXCEPT !.status = req[r].out]]
    /\ Answer(r, req[r].out)
    /\ UNCHANGED <<config, aged, history>>

\* CompleteActionExecution: the row gets the outcome, whoever inserted it.
Finish(r) ==
    /\ req[r].pc = "finish"
    /\ LET k == req[r].what.key IN
       /\ exec' = [exec EXCEPT ![k] = IF @ = None THEN @ ELSE [@ EXCEPT !.status = req[r].out]]
       /\ Answer(r, IF exec[k] = None THEN "error" ELSE req[r].out)
    /\ UNCHANGED <<config, aged, history>>

-----------------------------------------------------------------------------
(***************************************************************************)
(* A click, from its arrival to the callback.                              *)
(***************************************************************************)
\* The client sends the id of the action it shows.  late: the attachment was
\* already completed when the request arrived (a history of the properties).
Arriving(w) ==
    [what |-> w, pc |-> "load", seen |-> IF card = None THEN 0 ELSE card.id,
     late |-> ActionOf(w).kind = "mattermost" /\ ActionOf(w).attachment \in Completed,
     out |-> "", ans |-> ""]

Click(r) ==
    /\ req[r].pc = "idle"
    /\ \E w \in {v \in asked : v.kind = "click"} : req' = [req EXCEPT ![r] = Arriving(w)]
    /\ UNCHANGED <<exec, config, aged, history>>

\* executeHTTPAction up to the reservation.
LoadCard(r) ==
    /\ req[r].pc = "load" /\ ActionOf(req[r].what).kind = "http"
    /\ IF card = None THEN Answer(r, "not found")
       ELSE IF req[r].what.user \notin Operators THEN Answer(r, "forbidden")
       ELSE IF req[r].seen # card.id THEN Answer(r, "changed")
       ELSE req' = [req EXCEPT ![r].pc = "clear", ![r].out = card.cipher]
    /\ UNCHANGED <<exec, config, aged, history>>

\* executeMattermostAction up to the results of the post's attachments.
LoadPost(r) ==
    /\ req[r].pc = "load" /\ ActionOf(req[r].what).kind = "mattermost"
    /\ IF post = None THEN Answer(r, "not found")
       ELSE IF req[r].what.user \notin Operators THEN Answer(r, "forbidden")
       ELSE req' = [req EXCEPT ![r].pc = "look", ![r].out = post]
    /\ UNCHANGED <<exec, config, aged, history>>

\* An attachment that was completed once answers with that result.
LookForResult(r) ==
    /\ req[r].pc = "look"
    /\ IF req[r].what.op.attachment \in Completed
       THEN Answer(r, "succeeded")
       ELSE Step(r, "clear")
    /\ UNCHANGED <<exec, config, aged, history>>

\* After the reservation: the target by name, its credentials, the context.
Prepare(r) ==
    /\ req[r].pc = "prepare"
    /\ req' = IF target # None /\ Decrypts(target) /\ Decrypts(req[r].out)
              THEN [req EXCEPT ![r].pc = "call"]
              ELSE [req EXCEPT ![r].pc = "finish", ![r].out = "failed"]
    /\ UNCHANGED <<exec, config, aged, history>>

\* The callback.  The target may act on it and its answer may still be lost,
\* too long or not 2xx: that is recorded as failed.
CallTarget(r) ==
    /\ req[r].pc = "call"
    /\ sent' = [sent EXCEPT ![req[r].what.key] = @ + 1]
    /\ \E acted \in BOOLEAN, out \in {"succeeded", "failed"} :
         /\ out = "succeeded" => acted
         /\ taken' = IF acted THEN taken \cup {<<req[r].what.key, ActionOf(req[r].what)>>}
                              ELSE taken
         /\ req' = [req EXCEPT ![r].pc = "finish", ![r].out = out]
    /\ UNCHANGED <<exec, config, aged, lost>>

ActionStep(r) ==
    \/ Click(r)
    \/ LoadCard(r)
    \/ LoadPost(r)
    \/ LookForResult(r)
    \/ ClearStale(r)
    \/ InsertExecution(r)
    \/ ReadExisting(r)
    \/ Prepare(r)
    \/ CallTarget(r)
    \/ Finish(r)

-----------------------------------------------------------------------------
(***************************************************************************)
(* Time and failures.                                                      *)
(***************************************************************************)
Holds(r) == req[r].pc \in {"prepare", "call", "finish"}

HoldsKey(r, k) == Holds(r) /\ req[r].what.key = k

Live(r) == req[r].pc \notin {"idle", "done", "lost"}

Aged(rows) == [k \in Key |-> IF rows[k] = None THEN None ELSE [rows[k] EXCEPT !.old = TRUE]]

\* Half an hour passes: more than the fifteen minutes after which a running
\* row is dropped.  Requests in progress are over before that: a callback
\* has a timeout of ten seconds.
Age ==
    /\ aged < MaxAged
    /\ \A r \in Request : ~ Live(r)
    /\ \E r \in Request : req[r].pc = "idle"
    /\ exec' = Aged(exec)
    /\ aged' = aged + 1
    /\ UNCHANGED <<req, config, history>>

Gone == [Idle EXCEPT !.pc = "lost"]

\* The client goes away, which cancels the context of every later statement,
\* or the database refuses to record the result.
Lose(r) ==
    /\ Live(r)
    /\ req' = [req EXCEPT ![r] = Gone]
    /\ lost' = IF Holds(r) THEN [lost EXCEPT ![req[r].what.key] = @ + 1] ELSE lost
    /\ UNCHANGED <<exec, config, aged, sent, taken>>

\* The server is started again, perhaps with another key in its environment.
Restart ==
    /\ \E s \in Seeds \ {seed} : seed' = s
    /\ Edit
    /\ req' = [r \in Request |-> IF Live(r) THEN Gone ELSE req[r]]
    /\ lost' = [k \in Key |-> lost[k] + Cardinality({r \in Request : HoldsKey(r, k)})]
    /\ UNCHANGED <<asked, exec, card, post, target, setting, aged, sent, taken>>

AdminNext ==
    /\ Asks("click")
    /\ SaveActionTarget \/ DeleteActionTarget \/ PublishCard \/ PublishPost

-----------------------------------------------------------------------------
(***************************************************************************)
(* Properties.                                                             *)
(***************************************************************************)

\* At most one request at a time works for an Idempotency-Key, and the target
\* is called again with it only after a request ended without recording what
\* its callback did (15-minute rule of ReserveActionExecution).
CalledAgainOnlyAfterLoss ==
    \A k \in Key :
        /\ Cardinality({r \in Request : HoldsKey(r, k)}) <= 1
        /\ \A r \in Request : HoldsKey(r, k) => exec[k] = Row(r)
        /\ sent[k] <= 1 + lost[k]

\* A success that is recorded or answered is one of the target's for the same
\* key, or for another button of the same attachment.
SuccessIsReal ==
    /\ \A k \in Key : (exec[k] # None /\ exec[k].status = "succeeded") =>
         \E op \in Op : <<k, op>> \in taken /\ exec[k].kind = op.kind
                                           /\ exec[k].index = Index(op)
    /\ \A r \in Request : (req[r].what # None /\ req[r].ans = "succeeded") =>
         LET op == ActionOf(req[r].what) IN
         \/ <<req[r].what.key, op>> \in taken
         \/ /\ op.kind = "mattermost"
            /\ \E t \in taken : t[2].kind = "mattermost" /\ t[2].attachment = op.attachment

=============================================================================
