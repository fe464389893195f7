---------------------------- MODULE WebConsole ----------------------------
(***************************************************************************)
(* The Web front end, web_app.py: a loopback server whose pages approve a  *)
(* run in two steps.  POST /preview queries the users and keeps the answer *)
(* as the pending snapshot; POST /run, confirmed with "DELETE n", runs the *)
(* cleanup and approves it only if its own query gives the snapshot again. *)
(* An unknown SSH key first has to be approved by POST /approve-host-key.  *)
(*                                                                         *)
(* Every request has a thread of its own.  A POST takes operation_lock     *)
(* without waiting (a second one is answered 409); a GET renders the state *)
(* at any time.  Browser tabs keep showing the page they were last sent,   *)
(* and what an operator submits is what the tab shows.                     *)
(*                                                                         *)
(* The runner is used through its promise: the variables and actions of    *)
(* ApprovedCleanup, which CleanupRun implements.                           *)
(***************************************************************************)
EXTENDS ApprovedCleanup, FiniteSets

CONSTANTS
    Tabs,       \* browser tabs that show pages of the server
    NoTab,      \* nobody waits for the answer
    Requests,   \* WebRunRequests operators submit (one endpoint each)
    NoRequest,
    Keys,       \* SSH server keys, each with its fingerprint
    NoKey

ASSUME WebConstants ==
    /\ NoTab \notin Tabs
    /\ NoRequest \notin Requests
    /\ NoKey \notin Keys

VARIABLES
    pending,  \* WebAppState.pending_request, pending_targets, pending_host_key
    op,       \* the POST that holds operation_lock
    view,     \* view[b]: what the page in tab b shows of the pending state
    trusted   \* trusted[r]: the key known_hosts holds for r's endpoint

(* Observations: no action reads them. *)
VARIABLES
    offered,  \* the preview nothing has happened to since it succeeded
    shown     \* the snapshot the tab showed that submitted the current run

webVars == <<pending, op, view, trusted, offered, shown>>
allVars == <<abstractVars, webVars>>

NoPending == [request |-> NoRequest, targets |-> {}, key |-> NoKey]
Blank     == [targets |-> {}, key |-> NoKey]
NoOp      == [path |-> "none", tab |-> NoTab, request |-> NoRequest, targets |-> {},
              working |-> FALSE]
NoOffer   == [request |-> NoRequest, targets |-> {}]

Paths == {"preview", "run", "disconnect"}

(* _render_page: the panels of the page show the pending key or targets.    *)
(* The endpoint beside the key is left out: only the fingerprint that is    *)
(* posted is compared with the pending one.                                 *)
Page == [targets |-> pending.targets, key |-> pending.key]

Idle == op = NoOp

----------------------------------------------------------------------------
(* GET /, and every POST that is rejected before it changes anything (form, *)
(* phrase, fingerprint, nothing pending): the tab gets the current page.    *)
Show(b) ==
    /\ view' = [view EXCEPT ![b] = Page]
    /\ UNCHANGED <<abstractVars, pending, op, trusted, offered, shown>>

(* A POST while another is handled is answered 409, without any form.  If   *)
(* it came from the tab that waits, that answer will be shown to nobody.    *)
Refuse(b) ==
    /\ ~Idle
    /\ view' = [view EXCEPT ![b] = Blank]
    /\ op' = IF op.tab = b THEN [op EXCEPT !.tab = NoTab] ELSE op
    /\ UNCHANGED <<abstractVars, pending, trusted, offered, shown>>

(* WebAppState.clear_pending. *)
ClearPending == pending' = NoPending

Preview(b, r) ==
    /\ op' = [NoOp EXCEPT !.path = "preview", !.tab = b, !.request = r, !.working = TRUE]
    /\ ClearPending
    /\ offered' = NoOffer
    /\ Begin
    /\ UNCHANGED <<view, shown>>

PostPreview(b, r) ==
    /\ Idle
    /\ Preview(b, r)
    /\ UNCHANGED trusted

(* Mutant of PostApproveKey: the fingerprint of the form is not compared. *)
BuggyPostApproveKey(b) ==
    /\ Idle
    /\ view[b].key # NoKey
    /\ pending.key # NoKey
    /\ trusted' = [trusted EXCEPT ![pending.request] = pending.key]
    /\ Preview(b, pending.request)

(* TRUST was typed on a page that shows a key: it must be the pending one.  *)
(* The key is stored and the preview made again.                            *)
PostApproveKey(b) ==
    /\ Idle
    /\ view[b].key # NoKey
    /\ pending.key # NoKey
    /\ view[b].key = pending.key
    /\ trusted' = [trusted EXCEPT ![pending.request] = pending.key]
    /\ Preview(b, pending.request)

(* The query of a preview: an unknown key, its rows, or any other failure.  *)
KeyUnknown ==
    /\ op.path = "preview" /\ op.working
    /\ trusted[op.request] = NoKey
    /\ \E k \in Keys : pending' = [request |-> op.request, targets |-> {}, key |-> k]
    /\ op' = [op EXCEPT !.working = FALSE]
    /\ End
    /\ UNCHANGED <<view, trusted, offered, shown>>

PreviewRows ==
    /\ op.path = "preview" /\ op.working
    /\ trusted[op.request] # NoKey
    /\ \E rows \in SUBSET Macs :
          /\ pending' = [request |-> IF rows = {} THEN NoRequest ELSE op.request,
                         targets |-> rows, key |-> NoKey]
          /\ offered' = IF rows = {} THEN NoOffer
                        ELSE [request |-> op.request, targets |-> rows]
    /\ op' = [op EXCEPT !.working = FALSE]
    /\ End
    /\ UNCHANGED <<view, trusted, shown>>

(* Mutant of PreviewFails: the exception leaves the handler unfinished. *)
BuggyPreviewFails ==
    /\ op.path = "preview" /\ op.working
    /\ End
    /\ UNCHANGED <<pending, op, view, trusted, offered, shown>>

PreviewFails ==
    /\ op.path = "preview" /\ op.working
    /\ op' = [op EXCEPT !.working = FALSE]
    /\ End
    /\ UNCHANGED <<pending, view, trusted, offered, shown>>

(* "DELETE n" was typed, n being what the page of the tab asks for: the     *)
(* number must fit the pending snapshot, which the run then consumes.       *)
PostRun(b) ==
    /\ Idle
    /\ view[b].targets # {}
    /\ pending.targets # {}
    /\ Cardinality(view[b].targets) = Cardinality(pending.targets)
    /\ op' = [path |-> "run", tab |-> b, request |-> pending.request,
              targets |-> pending.targets, working |-> TRUE]
    /\ ClearPending
    /\ shown' = view[b].targets
    /\ Begin
    /\ UNCHANGED <<view, trusted, offered>>

(* run_once up to its approval: the fresh query proposes what it found.     *)
RunQueried ==
    /\ op.path = "run" /\ op.working
    /\ trusted[op.request] # NoKey
    /\ \E rows \in (SUBSET Macs) \ {{}} : Propose(rows)
    /\ UNCHANGED webVars

(* Mutant of ApproveExact: the number of MACs is compared, not the MACs. *)
BuggyApproveExact ==
    /\ op.path = "run" /\ op.working
    /\ Cardinality(snapshot) = Cardinality(op.targets)
    /\ Agree
    /\ offered' = NoOffer
    /\ UNCHANGED <<pending, op, view, trusted, shown>>

(* approve_exact_snapshot: endpoint, account, role and targets must be      *)
(* those of the preview; the request is, so the targets decide.             *)
ApproveExact ==
    /\ op.path = "run" /\ op.working
    /\ snapshot = op.targets
    /\ Agree
    /\ offered' = NoOffer
    /\ UNCHANGED <<pending, op, view, trusted, shown>>

(* Mutant of RunDeletes: a MAC is sent again. *)
BuggyRunDeletes(m) ==
    /\ op.path = "run" /\ op.working
    /\ stage = "deleting" /\ m \in snapshot
    /\ transmitted' = [transmitted EXCEPT ![m] = @ + 1]
    /\ transmitted[m] < 2
    /\ UNCHANGED <<stage, snapshot, webVars>>

RunDeletes(m) ==
    /\ op.path = "run" /\ op.working
    /\ Transmit(m)
    /\ UNCHANGED webVars

(* The run ends: by an error or no rows, denied (also when the rows came in *)
(* another order), or after its deletes.                                    *)
RunEnds ==
    /\ op.path = "run" /\ op.working
    /\ End
    /\ op' = [op EXCEPT !.working = FALSE]
    /\ offered' = NoOffer
    /\ UNCHANGED <<pending, view, trusted, shown>>

PostDisconnect(b) ==
    /\ Idle
    /\ op' = [NoOp EXCEPT !.path = "disconnect", !.tab = b, !.working = TRUE]
    /\ UNCHANGED <<abstractVars, pending, view, trusted, offered, shown>>

(* The session is closed, or closing raised: the pending state goes.        *)
Disconnected ==
    /\ op.path = "disconnect" /\ op.working
    /\ ClearPending
    /\ offered' = NoOffer
    /\ op' = [op EXCEPT !.working = FALSE]
    /\ UNCHANGED <<abstractVars, view, trusted, shown>>

(* The answer of a POST: the current page, then the lock is given back.     *)
Answer ==
    /\ ~Idle /\ ~op.working
    /\ view' = IF op.tab = NoTab THEN view ELSE [view EXCEPT ![op.tab] = Page]
    /\ op' = NoOp
    /\ UNCHANGED <<abstractVars, pending, trusted, offered, shown>>

WebInit ==
    /\ AbstractInit
    /\ pending = NoPending
    /\ op = NoOp
    /\ view = [b \in Tabs |-> Blank]
    /\ trusted = [r \in Requests |-> NoKey]
    /\ offered = NoOffer
    /\ shown = {}

HandlerStep ==
    \/ KeyUnknown \/ PreviewRows \/ PreviewFails
    \/ RunQueried \/ ApproveExact \/ RunEnds
    \/ \E m \in Macs : RunDeletes(m)
    \/ Disconnected
    \/ Answer

WebNext ==
    \/ \E b \in Tabs :
          \/ Show(b)
          \/ Refuse(b)
          \/ \E r \in Requests : PostPreview(b, r)
          \/ PostApproveKey(b)
          \/ PostRun(b)
          \/ PostDisconnect(b)
    \/ HandlerStep

(* A handler's thread runs on: each exchange with the device times out.     *)
WebSpec == WebInit /\ [][WebNext]_allVars /\ WF_allVars(HandlerStep)

----------------------------------------------------------------------------
(* Properties *)

(* Types of the server's and the tabs' state. *)
WebTypeOK ==
    /\ AbstractTypeOK
    /\ pending \in [request : Requests \union {NoRequest}, targets : SUBSET Macs,
                    key : Keys \union {NoKey}]
    /\ op \in [path : Paths \union {"none"}, tab : Tabs \union {NoTab},
               request : Requests \union {NoRequest}, targets : SUBSET Macs,
               working : BOOLEAN]
    /\ view \in [Tabs -> [targets : SUBSET Macs, key : Keys \union {NoKey}]]
    /\ trusted \in [Requests -> Keys \union {NoKey}]
    /\ offered \in [request : Requests \union {NoRequest}, targets : SUBSET Macs]
    /\ shown \in SUBSET Macs

(* A run is approved only for the request and the snapshot of the latest    *)
(* preview, and only while nothing came between: no other preview, even one *)
(* that failed, no disconnect, no earlier run of the same snapshot.  One    *)
(* confirmation thus never deletes twice, whoever submits pages again.      *)
ApprovedIsOffered ==
    [][stage = "asking" /\ stage' = "deleting"
          => offered = [request |-> op.request, targets |-> snapshot]]_allVars

(* A key becomes trusted only if the page it was confirmed on showed it,    *)
(* and a trusted key is never replaced by another.                          *)
TrustedAsShown ==
    [][\A r \in Requests : trusted'[r] # trusted[r] =>
          /\ trusted[r] = NoKey
          /\ view[op'.tab].key = trusted'[r]]_allVars

(* The operation lock is always given back: no failing query, denied run or *)
(* lost browser leaves the server answering 409 for ever.                   *)
OperationEnds == ~Idle ~> Idle

(* The user guide (first connection and approval, step 4) says a deletion   *)
(* starts only when all of its MACs were looked at and confirmed.           *)
OnlySeenIsDeleted == stage = "deleting" => snapshot = shown
============================================================================
