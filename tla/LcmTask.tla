------------------------------- MODULE LcmTask -------------------------------
(***************************************************************************)
(* The lifecycle manager's side of one launch: dispatchCommToNodes with the  *)
(* goroutines it starts.  They share one context (mCtx: it was cancelled),   *)
(* one token channel to NcountMaster, and for every target one channel of    *)
(* capacity 1 that NcountMaster and that target's NkeepMaster both write     *)
(* and only that target's handleNodeConnection reads.                        *)
(***************************************************************************)
EXTENDS Wire

VARIABLES
  registered,   \* the name is in commTaskCtxMap (deleteCommTask not yet run)
  mCtx,         \* commTaskCtx.Cancel() was called
  ncPc,         \* NcountMaster; "plan" until dispatchCommToNodes started it
  connected,    \*   its count of answers
  bcastTo,      \*   the next target of its broadcast
  ncTok,        \* tokens in waitNCountChan
  sendNode,     \* content of each sendNodeChan
  mPc,          \* handleNodeConnection of each target
  resp,         \*   respNCountMsg # nil
  kPc,          \* NkeepMaster of each target
  keepTok       \*   tokens in its waitNKeepChan

lcmVars == <<registered, mCtx, ncPc, connected, bcastTo, ncTok, sendNode,
             mPc, resp, kPc, keepTok>>

LcmTypeOK ==
  /\ registered \in BOOLEAN
  /\ mCtx \in BOOLEAN
  /\ ncPc \in {"plan", "count", "bcast", "done"}
  /\ connected \in Nat
  /\ bcastTo \in Nat
  /\ ncTok \in Nat
  /\ sendNode \in [Targets -> {"empty", "nkeep", "ncount"}]
  /\ mPc \in [Targets -> {"dial", "magic", "loop", "join", "done"}]
  /\ resp \in [Targets -> BOOLEAN]
  /\ kPc \in [Targets -> {"off", "send", "wait", "idle", "done"}]
  /\ keepTok \in [Targets -> Nat]

LcmInit ==
  /\ registered = TRUE
  /\ mCtx = FALSE
  /\ ncPc = "plan"
  /\ connected = 0
  /\ bcastTo = 1
  /\ ncTok = 0
  /\ sendNode = [i \in Targets |-> "empty"]
  /\ mPc = [i \in Targets |-> "dial"]
  /\ resp = [i \in Targets |-> FALSE]
  /\ kPc = [i \in Targets |-> "off"]
  /\ keepTok = [i \in Targets |-> 0]

-----------------------------------------------------------------------------
(* handleNodeConnection *)

\* ConnectTarget and SendCommand succeed.
LcmDial(i) ==
  /\ ncPc # "plan"
  /\ mPc[i] = "dial"
  /\ mPc' = [mPc EXCEPT ![i] = "magic"]
  /\ lcmEnd' = [lcmEnd EXCEPT ![i] = "open"]
  /\ toNode' = [toNode EXCEPT ![i] = Append(@, "command")]
  /\ UNCHANGED <<registered, mCtx, ncPc, connected, bcastTo, ncTok, sendNode,
                 resp, kPc, keepTok, toLcm, nodeEnd, cut>>

\* One of them fails: the handler returns, and cancels nothing.
LcmDialFail(i) ==
  /\ "dial" \in Env
  /\ ncPc # "plan"
  /\ mPc[i] = "dial"
  /\ mPc' = [mPc EXCEPT ![i] = "done"]
  /\ UNCHANGED <<registered, mCtx, ncPc, connected, bcastTo, ncTok, sendNode,
                 resp, kPc, keepTok, wireVars>>

\* WaitMagicCode reads the magic code; NkeepMaster and ConnReadLoop start.
LcmMagic(i) ==
  /\ mPc[i] = "magic"
  /\ toLcm[i] # <<>>
  /\ Head(toLcm[i]) = "magic"
  /\ toLcm' = [toLcm EXCEPT ![i] = Tail(@)]
  /\ mPc' = [mPc EXCEPT ![i] = "loop"]
  /\ kPc' = [kPc EXCEPT ![i] = "send"]
  /\ UNCHANGED <<registered, mCtx, ncPc, connected, bcastTo, ncTok, sendNode,
                 resp, keepTok, toNode, lcmEnd, nodeEnd, cut>>

\* WaitMagicCode reads other bytes (a framed message that overtook the magic
\* code) or end-of-file: the handler returns, and cancels nothing.
LcmMagicErr(i) ==
  /\ mPc[i] = "magic"
  /\ \/ NodeGone(i)
     \/ toLcm[i] # <<>> /\ Head(toLcm[i]) # "magic"
  /\ mPc' = [mPc EXCEPT ![i] = "done"]
  /\ CloseLcm(i)
  /\ UNCHANGED <<registered, mCtx, ncPc, connected, bcastTo, ncTok, sendNode,
                 resp, kPc, keepTok, toNode, nodeEnd, cut>>

\* case sendMsg := <-sendNodeChan.  For "ncount" the handler sends back what
\* the node had sent (respNCountMsg), which is what the worker compares with.
LcmSend(i) ==
  /\ mPc[i] = "loop"
  /\ sendNode[i] # "empty"
  /\ WriteDown(i, sendNode[i])
  /\ sendNode' = [sendNode EXCEPT ![i] = "empty"]
  /\ UNCHANGED <<registered, mCtx, ncPc, connected, bcastTo, ncTok,
                 mPc, resp, kPc, keepTok, toLcm, lcmEnd, nodeEnd, cut>>

\* ... and the write fails: the loop is left, and nothing is cancelled.
LcmSendErr(i) ==
  /\ mPc[i] = "loop"
  /\ sendNode[i] # "empty"
  /\ NodeGone(i)
  /\ sendNode' = [sendNode EXCEPT ![i] = "empty"]
  /\ mPc' = [mPc EXCEPT ![i] = "join"]
  /\ UNCHANGED <<registered, mCtx, ncPc, connected, bcastTo, ncTok,
                 resp, kPc, keepTok, wireVars>>

\* case recvMsg := <-rcvNodeChan: an answer for NcountMaster ...
LcmRecvNcount(i) ==
  /\ mPc[i] = "loop"
  /\ toLcm[i] # <<>>
  /\ Head(toLcm[i]) = "ncount"
  /\ toLcm' = [toLcm EXCEPT ![i] = Tail(@)]
  /\ resp' = [resp EXCEPT ![i] = TRUE]
  /\ ncTok' = ncTok + 1
  /\ UNCHANGED <<registered, mCtx, ncPc, connected, bcastTo, sendNode,
                 mPc, kPc, keepTok, toNode, lcmEnd, nodeEnd, cut>>

\* ... or for this target's NkeepMaster.
LcmRecvNkeep(i) ==
  /\ mPc[i] = "loop"
  /\ toLcm[i] # <<>>
  /\ Head(toLcm[i]) = "nkeep"
  /\ toLcm' = [toLcm EXCEPT ![i] = Tail(@)]
  /\ keepTok' = [keepTok EXCEPT ![i] = @ + 1]
  /\ UNCHANGED <<registered, mCtx, ncPc, connected, bcastTo, ncTok, sendNode,
                 mPc, resp, kPc, toNode, lcmEnd, nodeEnd, cut>>

\* ... or nil, "Disconnected from the Node side".
LcmRecvNil(i) ==
  /\ mPc[i] = "loop"
  /\ NodeGone(i)
  /\ mCtx' = TRUE
  /\ mPc' = [mPc EXCEPT ![i] = "join"]
  /\ UNCHANGED <<registered, ncPc, connected, bcastTo, ncTok, sendNode,
                 resp, kPc, keepTok, wireVars>>

\* case <-commTaskCtx.Ctx.Done()
LcmDone(i) ==
  /\ mPc[i] = "loop"
  /\ mCtx
  /\ mPc' = [mPc EXCEPT ![i] = "join"]
  /\ UNCHANGED <<registered, mCtx, ncPc, connected, bcastTo, ncTok, sendNode,
                 resp, kPc, keepTok, wireVars>>

\* Mutant: NkeepMaster is not in the wait group.
KeeperForgotten(i) == TRUE

KeeperEnded(i) == kPc[i] = "done"

\* subWg.Wait() returns when NkeepMaster has; the deferred conn.Close() runs,
\* and its waitNKeepChan is garbage.
LcmJoin(i) ==
  /\ mPc[i] = "join"
  /\ KeeperEnded(i)
  /\ mPc' = [mPc EXCEPT ![i] = "done"]
  /\ keepTok' = [keepTok EXCEPT ![i] = 0]
  /\ CloseLcm(i)
  /\ UNCHANGED <<registered, mCtx, ncPc, connected, bcastTo, ncTok, sendNode,
                 resp, kPc, toNode, nodeEnd, cut>>

-----------------------------------------------------------------------------
(* NcountMaster *)

\* Mutant: the barrier opens one worker early.
OneMissing(c) == c + 1 >= N

\* Mutant: NcountMaster counts without a token.
NoToken == TRUE

EnoughWorkers(c) == c >= N

TokenReady == ncTok > 0

NcCount ==
  /\ ncPc = "count"
  /\ TokenReady
  /\ ncTok' = ncTok - 1
  /\ connected' = connected + 1
  /\ ncPc' = IF EnoughWorkers(connected + 1) THEN "bcast" ELSE "count"
  /\ UNCHANGED <<registered, mCtx, bcastTo, sendNode, mPc, resp, kPc, keepTok,
                 wireVars>>

\* The 10 s ticker: too few workers answered.
NcTimeout ==
  /\ "late" \in Env
  /\ ncPc = "count"
  /\ mCtx' = TRUE
  /\ ncPc' = "done"
  /\ UNCHANGED <<registered, connected, bcastTo, ncTok, sendNode, mPc, resp,
                 kPc, keepTok, wireVars>>

NcDone ==
  /\ ncPc = "count"
  /\ mCtx
  /\ ncPc' = "done"
  /\ UNCHANGED <<registered, mCtx, connected, bcastTo, ncTok, sendNode, mPc,
                 resp, kPc, keepTok, wireVars>>

\* Mutant: a select with a default, which drops the release if the buffer is full.
BcastOrDrop ==
  /\ ncPc = "bcast"
  /\ sendNode' = [sendNode EXCEPT ![bcastTo] = IF @ = "empty" THEN "ncount" ELSE @]
  /\ bcastTo' = bcastTo + 1
  /\ ncPc' = IF bcastTo = N THEN "done" ELSE "bcast"
  /\ UNCHANGED <<registered, mCtx, connected, ncTok, mPc, resp, kPc, keepTok,
                 wireVars>>

\* sendNodeChan <- sendMsg: no select, so no way out while the buffer is full.
NcBcast ==
  /\ ncPc = "bcast"
  /\ sendNode[bcastTo] = "empty"
  /\ sendNode' = [sendNode EXCEPT ![bcastTo] = "ncount"]
  /\ bcastTo' = bcastTo + 1
  /\ ncPc' = IF bcastTo = N THEN "done" ELSE "bcast"
  /\ UNCHANGED <<registered, mCtx, connected, ncTok, mPc, resp, kPc, keepTok,
                 wireVars>>

-----------------------------------------------------------------------------
(* NkeepMaster.  "wait": a request is out and recvt (4 s) runs; "idle": the   *)
(* answer came, recvt is stopped and sendt (10 s) runs.                       *)

\* The first and every later sendNodeChan <- sendMsg: no select here either.
KeepSend(i) ==
  /\ kPc[i] = "send"
  /\ sendNode[i] = "empty"
  /\ sendNode' = [sendNode EXCEPT ![i] = "nkeep"]
  /\ kPc' = [kPc EXCEPT ![i] = "wait"]
  /\ UNCHANGED <<registered, mCtx, ncPc, connected, bcastTo, ncTok, mPc, resp,
                 keepTok, wireVars>>

KeepGot(i) ==
  /\ kPc[i] \in {"wait", "idle"}
  /\ keepTok[i] > 0
  /\ keepTok' = [keepTok EXCEPT ![i] = @ - 1]
  /\ kPc' = [kPc EXCEPT ![i] = "idle"]
  /\ UNCHANGED <<registered, mCtx, ncPc, connected, bcastTo, ncTok, sendNode,
                 mPc, resp, wireVars>>

\* Mutant: a request is repeated while one is out.
SendUnanswered(i) == kPc[i] \in {"wait", "idle"}

\* Timing assumption: sendt never fires while recvt runs, 4 s < 10 s.
SendDue(i) == kPc[i] = "idle"

KeepTick(i) ==
  /\ "period" \in Env
  /\ SendDue(i)
  /\ kPc' = [kPc EXCEPT ![i] = "send"]
  /\ UNCHANGED <<registered, mCtx, ncPc, connected, bcastTo, ncTok, sendNode,
                 mPc, resp, keepTok, wireVars>>

\* Mutant: no answer, and the launch goes on.
KeepTimeoutIgnored(i) ==
  /\ "late" \in Env
  /\ kPc[i] \in {"wait", "idle"}
  /\ kPc' = [kPc EXCEPT ![i] = "done"]
  /\ UNCHANGED <<registered, mCtx, ncPc, connected, bcastTo, ncTok, sendNode,
                 mPc, resp, keepTok, wireVars>>

\* recvt fires, or had fired before Stop(), which does not drain its channel.
KeepTimeout(i) ==
  /\ "late" \in Env
  /\ kPc[i] \in {"wait", "idle"}
  /\ mCtx' = TRUE
  /\ kPc' = [kPc EXCEPT ![i] = "done"]
  /\ UNCHANGED <<registered, ncPc, connected, bcastTo, ncTok, sendNode, mPc,
                 resp, keepTok, wireVars>>

KeepDone(i) ==
  /\ kPc[i] \in {"wait", "idle"}
  /\ mCtx
  /\ kPc' = [kPc EXCEPT ![i] = "done"]
  /\ UNCHANGED <<registered, mCtx, ncPc, connected, bcastTo, ncTok, sendNode,
                 mPc, resp, keepTok, wireVars>>

-----------------------------------------------------------------------------
(* The task as a whole *)

\* dispatchCommToNodes makes the channels and starts NcountMaster and, for every
\* target, handleNodeConnection.
DispatchStart ==
  /\ ncPc = "plan"
  /\ ncPc' = "count"
  /\ UNCHANGED <<registered, mCtx, connected, bcastTo, ncTok, sendNode, mPc,
                 resp, kPc, keepTok, wireVars>>

\* Or it cannot decode the command, or removeDisconnectNode misses the sender,
\* the local node or every receiver: it cancels, and starts nothing.
DispatchReject ==
  /\ "reject" \in Env
  /\ ncPc = "plan"
  /\ mCtx' = TRUE
  /\ ncPc' = "done"
  /\ mPc' = [i \in Targets |-> "done"]
  /\ UNCHANGED <<registered, connected, bcastTo, ncTok, sendNode, resp, kPc,
                 keepTok, wireVars>>

\* dispatchCommToNodes: subWg.Wait() returns, the deferred deleteCommTask runs.
DispatchEnd ==
  /\ registered
  /\ ncPc = "done"
  /\ \A i \in Targets : mPc[i] = "done"
  /\ registered' = FALSE
  /\ UNCHANGED <<mCtx, ncPc, connected, bcastTo, ncTok, sendNode, mPc, resp,
                 kPc, keepTok, wireVars>>

\* DcmStopApp, DcmStopAppAll, or the caller of DcmRunApp going away: the
\* context found under the name is cancelled.
UserStop ==
  /\ "stop" \in Env
  /\ registered
  /\ ~mCtx
  /\ mCtx' = TRUE
  /\ UNCHANGED <<registered, ncPc, connected, bcastTo, ncTok, sendNode, mPc,
                 resp, kPc, keepTok, wireVars>>

HandlerStep(i) ==
  \/ LcmDial(i) \/ LcmDialFail(i) \/ LcmMagic(i) \/ LcmMagicErr(i)
  \/ LcmSend(i) \/ LcmSendErr(i)
  \/ LcmRecvNcount(i) \/ LcmRecvNkeep(i) \/ LcmRecvNil(i)
  \/ LcmDone(i) \/ LcmJoin(i)

NcountStep == NcCount \/ NcTimeout \/ NcDone \/ NcBcast

NkeepStep(i) ==
  KeepSend(i) \/ KeepGot(i) \/ KeepTick(i) \/ KeepTimeout(i) \/ KeepDone(i)

LcmNext ==
  \/ NcountStep
  \/ \E i \in Targets : HandlerStep(i) \/ NkeepStep(i)
  \/ DispatchStart \/ DispatchReject \/ DispatchEnd
  \/ UserStop

(***************************************************************************)
(* Every goroutine runs on and the tickers fire.  A select with several ready *)
(* cases takes one at random, so one that is ready again and again (KeepDone,  *)
(* between two keep-alives) or for ever (the other Done and nil cases) is      *)
(* taken; senders blocked on a channel are served in turn (NcBcast).          *)
(***************************************************************************)
LcmFairness ==
  /\ WF_lcmVars(NcountStep)
  /\ SF_lcmVars(NcBcast)
  /\ WF_lcmVars(DispatchStart \/ DispatchReject)
  /\ WF_lcmVars(DispatchEnd)
  /\ \A i \in Targets :
       /\ WF_lcmVars(HandlerStep(i))
       /\ WF_lcmVars(LcmDone(i))
       /\ WF_lcmVars(LcmRecvNil(i))
       /\ WF_lcmVars(NkeepStep(i))
       /\ SF_lcmVars(KeepDone(i))
=============================================================================
