-------------------------- MODULE WebConsoleProofs --------------------------
(***************************************************************************)
(* Proofs about the Web console, for any number of tabs, requests, keys    *)
(* and MACs: what an approved run and a trusted key have been shown first. *)
(***************************************************************************)
EXTENDS WebConsole, TLAPS

(* The runner is at work exactly while a POST that uses it is; a preview    *)
(* gets no further than its query.                                          *)
RunnerFollowsPost ==
    /\ stage # "idle" <=> op.working /\ op.path \in {"preview", "run"}
    /\ stage \in {"asking", "deleting"} => op.path = "run"
    /\ op.path \in {"preview", "run"} => op.request \in Requests

(* The pending snapshot is the latest preview's, and nothing has happened   *)
(* to that preview since.                                                   *)
PendingIsOffered ==
    pending.targets # {} =>
        /\ pending.request \in Requests
        /\ offered = [request |-> pending.request, targets |-> pending.targets]

(* A pending key waits for an endpoint that has none. *)
PendingKeyIsNew ==
    pending.key # NoKey =>
        /\ pending.targets = {}
        /\ pending.request \in Requests
        /\ trusted[pending.request] = NoKey

(* A run has consumed the pending snapshot; until it is approved, what it   *)
(* took is what the preview offered.                                        *)
RunHoldsOffer ==
    op.path = "run" /\ op.working =>
        /\ pending = NoPending
        /\ stage \in {"looking", "asking"}
              => offered = [request |-> op.request, targets |-> op.targets]

(* No command leaves before the approval; then only those of the snapshot   *)
(* the preview had, which is the one the run proposed.                      *)
DeletesAsPreviewed ==
    /\ stage \in {"looking", "asking"} => \A m \in Macs : transmitted[m] = 0
    /\ stage = "deleting" =>
          /\ snapshot = op.targets
          /\ \A m \in Macs : transmitted[m] = 1 => m \in op.targets

WebInv ==
    /\ WebTypeOK
    /\ RunnerFollowsPost
    /\ PendingIsOffered
    /\ PendingKeyIsNew
    /\ RunHoldsOffer
    /\ DeletesAsPreviewed

----------------------------------------------------------------------------
(* The invariant holds at the start and every step keeps it. *)
LEMMA WebInvInit ==
    ASSUME WebInit
    PROVE  WebInv
BY DEF WebInit, AbstractInit, WebInv, WebTypeOK, AbstractTypeOK, Stages, Paths, NoPending,
   NoOp, NoOffer, Blank, RunnerFollowsPost, PendingIsOffered, PendingKeyIsNew, RunHoldsOffer,
   DeletesAsPreviewed

LEMMA WebTypeStep ==
    ASSUME WebInv, [WebNext]_allVars
    PROVE  WebTypeOK'
<1> USE DEF WebInv, WebTypeOK, AbstractTypeOK, Stages, Paths, NoPending, NoOp, NoOffer, Blank,
        abstractVars, webVars
<1>1. ASSUME NEW b \in Tabs, Show(b)
      PROVE  WebTypeOK'
  BY <1>1 DEF Show, Page
<1>2. ASSUME NEW b \in Tabs, Refuse(b)
      PROVE  WebTypeOK'
  BY <1>2 DEF Refuse, Idle, Blank
<1>3. ASSUME NEW b \in Tabs, NEW r \in Requests, PostPreview(b, r)
      PROVE  WebTypeOK'
  BY <1>3 DEF PostPreview, Idle, Preview, ClearPending, Begin
<1>4. ASSUME NEW b \in Tabs, PostApproveKey(b)
      PROVE  WebTypeOK'
  BY <1>4 DEF PostApproveKey, Idle, Preview, ClearPending, Begin
<1>5. ASSUME NEW b \in Tabs, PostRun(b)
      PROVE  WebTypeOK'
  BY <1>5 DEF PostRun, Idle, ClearPending, Begin
<1>6. ASSUME NEW b \in Tabs, PostDisconnect(b)
      PROVE  WebTypeOK'
  BY <1>6 DEF PostDisconnect, Idle
<1>7. ASSUME KeyUnknown
      PROVE  WebTypeOK'
  <2>1. PICK k \in Keys : pending' = [request |-> op.request, targets |-> {}, key |-> k]
    BY <1>7 DEF KeyUnknown
  <2>2. pending' \in [request : Requests \union {NoRequest}, targets : SUBSET Macs,
                      key : Keys \union {NoKey}]
    BY <2>1
  <2> QED
    BY <1>7, <2>2 DEF KeyUnknown, End
<1>8. ASSUME PreviewRows
      PROVE  WebTypeOK'
  <2>1. PICK rows \in SUBSET Macs :
          /\ pending' = [request |-> IF rows = {} THEN NoRequest ELSE op.request,
                         targets |-> rows, key |-> NoKey]
          /\ offered' = IF rows = {} THEN NoOffer
                        ELSE [request |-> op.request, targets |-> rows]
    BY <1>8 DEF PreviewRows
  <2>2. /\ pending' \in [request : Requests \union {NoRequest}, targets : SUBSET Macs,
                         key : Keys \union {NoKey}]
        /\ offered' \in [request : Requests \union {NoRequest}, targets : SUBSET Macs]
    BY <2>1
  <2> QED
    BY <1>8, <2>2 DEF PreviewRows, End
<1>9. ASSUME PreviewFails
      PROVE  WebTypeOK'
  BY <1>9 DEF PreviewFails, End
<1>10. ASSUME RunQueried
      PROVE  WebTypeOK'
  BY <1>10 DEF RunQueried, Propose
<1>11. ASSUME ApproveExact
      PROVE  WebTypeOK'
  BY <1>11 DEF ApproveExact, Agree
<1>12. ASSUME RunEnds
      PROVE  WebTypeOK'
  BY <1>12 DEF RunEnds, End
<1>13. ASSUME NEW m \in Macs, RunDeletes(m)
      PROVE  WebTypeOK'
  BY <1>13 DEF RunDeletes, Transmit
<1>14. ASSUME Disconnected
      PROVE  WebTypeOK'
  BY <1>14 DEF Disconnected, ClearPending
<1>15. ASSUME Answer
      PROVE  WebTypeOK'
  BY <1>15 DEF Answer, Idle, Page
<1>16. ASSUME UNCHANGED allVars
      PROVE  WebTypeOK'
  BY <1>16 DEF allVars, abstractVars, webVars
<1> QED
  BY <1>1, <1>2, <1>3, <1>4, <1>5, <1>6, <1>7, <1>8, <1>9, <1>10, <1>11, <1>12, <1>13, <1>14, <1>15, <1>16 DEF WebNext, HandlerStep

LEMMA WebControlStep ==
    ASSUME WebInv, [WebNext]_allVars
    PROVE  RunnerFollowsPost' /\ PendingIsOffered' /\ PendingKeyIsNew' /\ RunHoldsOffer'
           /\ DeletesAsPreviewed'
<1> DEFINE Goal == RunnerFollowsPost' /\ PendingIsOffered' /\ PendingKeyIsNew' /\ RunHoldsOffer'
                   /\ DeletesAsPreviewed'
<1> USE WebConstants DEF WebInv, WebTypeOK, AbstractTypeOK, Stages, Paths, NoPending, NoOp,
        NoOffer, Blank, abstractVars, webVars, RunnerFollowsPost, PendingIsOffered,
        PendingKeyIsNew, RunHoldsOffer, DeletesAsPreviewed
<1>1. ASSUME NEW b \in Tabs, Show(b)
      PROVE  Goal
  BY <1>1 DEF Show, Page
<1>2. ASSUME NEW b \in Tabs, Refuse(b)
      PROVE  Goal
  BY <1>2 DEF Refuse, Idle, Blank
<1>3. ASSUME NEW b \in Tabs, NEW r \in Requests, PostPreview(b, r)
      PROVE  Goal
  BY <1>3 DEF PostPreview, Idle, Preview, ClearPending, Begin
<1>4. ASSUME NEW b \in Tabs, PostApproveKey(b)
      PROVE  Goal
  BY <1>4 DEF PostApproveKey, Idle, Preview, ClearPending, Begin
<1>5. ASSUME NEW b \in Tabs, PostRun(b)
      PROVE  Goal
  BY <1>5 DEF PostRun, Idle, ClearPending, Begin
<1>6. ASSUME NEW b \in Tabs, PostDisconnect(b)
      PROVE  Goal
  BY <1>6 DEF PostDisconnect, Idle
<1>7. ASSUME KeyUnknown
      PROVE  Goal
  BY <1>7 DEF KeyUnknown, End
<1>8. ASSUME PreviewRows
      PROVE  Goal
  BY <1>8 DEF PreviewRows, End
<1>9. ASSUME PreviewFails
      PROVE  Goal
  BY <1>9 DEF PreviewFails, End
<1>10. ASSUME RunQueried
      PROVE  Goal
  BY <1>10 DEF RunQueried, Propose
<1>11. ASSUME ApproveExact
      PROVE  Goal
  BY <1>11 DEF ApproveExact, Agree
<1>12. ASSUME RunEnds
      PROVE  Goal
  BY <1>12 DEF RunEnds, End
<1>13. ASSUME NEW m \in Macs, RunDeletes(m)
      PROVE  Goal
  BY <1>13 DEF RunDeletes, Transmit
<1>14. ASSUME Disconnected
      PROVE  Goal
  BY <1>14 DEF Disconnected, ClearPending
<1>15. ASSUME Answer
      PROVE  Goal
  BY <1>15 DEF Answer, Idle, Page
<1>16. ASSUME UNCHANGED allVars
      PROVE  Goal
  BY <1>16 DEF allVars, abstractVars, webVars
<1> QED
  BY <1>1, <1>2, <1>3, <1>4, <1>5, <1>6, <1>7, <1>8, <1>9, <1>10, <1>11, <1>12, <1>13, <1>14, <1>15, <1>16 DEF WebNext, HandlerStep
----------------------------------------------------------------------------
(* In every reachable state the inductive invariant holds. *)
THEOREM WebInvariant == WebSpec => []WebInv
<1>1. WebInit => WebInv
  BY WebInvInit
<1>2. WebInv /\ [WebNext]_allVars => WebInv'
  BY WebTypeStep, WebControlStep DEF WebInv
<1> QED
  BY <1>1, <1>2, PTL DEF WebSpec

(* The server's and the tabs' state always have their types. *)
THEOREM WebTypes == WebSpec => []WebTypeOK
<1>1. WebInv => WebTypeOK
  BY DEF WebInv
<1> QED
  BY <1>1, WebInvariant, PTL

(* Whatever tabs submit and in whatever order, the commands a run sends are *)
(* for MACs of the pending snapshot it consumed, and none leaves before its *)
(* own query has given that snapshot again.                                 *)
THEOREM RunDeletesPreview == WebSpec => []DeletesAsPreviewed
<1>1. WebInv => DeletesAsPreviewed
  BY DEF WebInv
<1> QED
  BY <1>1, WebInvariant, PTL

(* approve_exact_snapshot approves only what the latest preview offered,    *)
(* and only while nothing has come between: it cannot approve it twice.     *)
THEOREM OfferedOnce == WebSpec => ApprovedIsOffered
<1>1. ASSUME WebInv, [WebNext]_allVars, stage = "asking", stage' = "deleting"
      PROVE  offered = [request |-> op.request, targets |-> snapshot]
  <2>1. ApproveExact
    BY <1>1 DEF WebNext, HandlerStep, Show, Refuse, PostPreview, PostApproveKey, Preview, PostRun,
       PostDisconnect, KeyUnknown, PreviewRows, PreviewFails, RunQueried, RunEnds, RunDeletes,
       Disconnected, Answer, Begin, Propose, Transmit, End, allVars, abstractVars
  <2> QED
    BY <1>1, <2>1 DEF ApproveExact, WebInv, RunHoldsOffer
<1>2. WebInv /\ [WebNext]_allVars
        => [stage = "asking" /\ stage' = "deleting"
              => offered = [request |-> op.request, targets |-> snapshot]]_allVars
  BY <1>1
<1> QED
  BY <1>2, WebInvariant, PTL DEF WebSpec, ApprovedIsOffered

(* POST /approve-host-key trusts only the key the page showed, for an       *)
(* endpoint that had none.                                                  *)
THEOREM KeysTrustedAsShown == WebSpec => TrustedAsShown
<1> DEFINE Step == \A r \in Requests : trusted'[r] # trusted[r] =>
                      /\ trusted[r] = NoKey
                      /\ view[op'.tab].key = trusted'[r]
<1>1. ASSUME WebInv, NEW b \in Tabs, PostApproveKey(b)
      PROVE  Step
  <2>1. /\ trusted' = [trusted EXCEPT ![pending.request] = pending.key]
        /\ view[b].key = pending.key
        /\ op'.tab = b
    BY <1>1 DEF PostApproveKey, Preview, NoOp
  <2>2. pending.request \in Requests /\ trusted[pending.request] = NoKey
    BY <1>1 DEF PostApproveKey, WebInv, PendingKeyIsNew
  <2> QED
    BY <1>1, <2>1, <2>2 DEF WebInv, WebTypeOK
<1>2. ASSUME [WebNext]_allVars, ~ \E b \in Tabs : PostApproveKey(b)
      PROVE  trusted' = trusted
  BY <1>2 DEF WebNext, HandlerStep, Show, Refuse, PostPreview, PostRun, PostDisconnect,
     KeyUnknown, PreviewRows, PreviewFails, RunQueried, ApproveExact, RunEnds, RunDeletes,
     Disconnected, Answer, allVars, webVars
<1>3. WebInv /\ [WebNext]_allVars => [Step]_allVars
  BY <1>1, <1>2
<1> QED
  BY <1>3, WebInvariant, PTL DEF WebSpec, TrustedAsShown
============================================================================
