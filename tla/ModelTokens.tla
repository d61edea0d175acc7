------------ MODULE ModelTokens ------------
(***************************************************************************)
(* The model token of one spoke workload: the hub mints it, for a short    *)
(* time, with a turn's delivery or when the spoke asks; the spoke hands it *)
(* to the agent and renews it before it expires (refresh_model_tokens of   *)
(* miragen/daemon/spoke/loop.py); the agent keeps the newest in memory and *)
(* in one file, which a harness's helper reads (miragen/model_token.py,    *)
(* start_turn and put_model_credential of miragen/app.py).                 *)
(*                                                                         *)
(* Time is counted in ticks; the spoke's loop passes once in each, unless  *)
(* it is down or the hub is.  A token is the tick it was minted in.  Left  *)
(* out: the token's form, the gateway's URL, the delivery itself (module   *)
(* SpokeDelivery) and the workload's intents (module SpokeWorkloads).      *)
(***************************************************************************)
EXTENDS Integers

CONSTANTS
  Ttl,           \* ticks a token lives
  Margin,        \* _MODEL_REFRESH_MARGIN: renewed so long before it expires
  MintInterval,  \* _MODEL_MINT_INTERVAL: the hub mints for the spoke so often
  PushRetry,     \* _MODEL_PUSH_RETRY: a hand-over that failed is tried again after
  NoToken,       \* no token, no expiry, no limit
  MaxTime,       \* bound: ticks
  MaxOffers,     \* bound: deliveries, and intents offered again
  MaxTroubles    \* bound: passes missed, answers lost, hand-overs that fail, restarts

ASSUME TimesAssumption ==
  /\ Ttl \in Nat /\ Margin \in Nat /\ MintInterval \in Nat /\ PushRetry \in Nat
  /\ MaxTime \in Nat /\ MaxOffers \in Nat /\ MaxTroubles \in Nat
  /\ NoToken \notin Int

(* How far one trouble puts a renewal off: the hub's next mint, one pass    *)
(* later, or the next hand-over.                                           *)
Setback == IF PushRetry > MintInterval THEN PushRetry ELSE MintInterval + 1

(* The margin has room for all the troubles, and a token lives long enough *)
(* to be renewed within it (15 min; 5 min, 60 s and 15 s in loop.py).      *)
ASSUME MarginAssumption ==
  /\ MaxTroubles * Setback < Margin
  /\ Margin + 2 * MintInterval + PushRetry < Ttl

VARIABLES
  clock,     \* the time, the same for all three
  lastMint,  \* the hub: when it last minted for the spoke
  hubKnows,  \* the hub: it knows the workload
  alive,     \* the workload runs, and the spoke has not seen it end
  record,    \* the spoke: model_expires_at, model_retry_at, model_unpushed
  passed,    \* the spoke's loop has passed in this tick
  held,      \* the agent: the token in memory
  tokenFile, \* the agent: the token in its file
  wire,      \* tokens in requests that timed out at the spoke
  handed,    \* history: the spoke saw this pod take a token, or forgot that it did
  offers,
  troubles
tokenVars == <<clock, lastMint, hubKnows, alive, record, passed, held, tokenFile, wire, handed,
               offers, troubles>>

Tokens == 0..MaxTime
Expiry(t) == t + Ttl
Expired(t) == Expiry(t) <= clock

(* TrackedWorkload's model fields, as an intent leaves them. *)
Untold == [expires |-> NoToken, retryAt |-> NoToken, unpushed |-> NoToken]

Moments == 0..(MaxTime + Ttl)  \* an expiry or a limit; no token is due later than it expires
TokensTypeOK ==
  /\ clock \in Tokens /\ lastMint \in Tokens \cup {NoToken}
  /\ hubKnows \in BOOLEAN /\ alive \in BOOLEAN /\ passed \in BOOLEAN
  /\ record \in [expires: Moments \cup {NoToken}, retryAt: Moments \cup {NoToken},
                 unpushed: Tokens \cup {NoToken}]
  /\ held \in Tokens \cup {NoToken} /\ tokenFile \in Tokens \cup {NoToken}
  /\ wire \subseteq Tokens /\ handed \in {"no", "yes", "forgotten"}
  /\ offers \in 0..MaxOffers /\ troubles \in 0..MaxTroubles

TokensInit ==
  /\ clock = 0 /\ lastMint = NoToken /\ hubKnows = TRUE
  /\ alive = TRUE /\ record = Untold /\ passed = FALSE
  /\ held = NoToken /\ tokenFile = NoToken /\ wire = {}
  /\ handed = "no" /\ offers = 0 /\ troubles = 0

------------------------
(* The agent. *)

M_Newer(t) == TRUE  \* its mutant: whatever comes is taken

(* ModelTokenHolder.set: an older token than the one held is ignored. *)
Newer(t) == held = NoToken \/ Expiry(t) >= Expiry(held)

Takes(t) ==
  /\ held' = IF Newer(t) THEN t ELSE held
  /\ tokenFile' = IF Newer(t) THEN t ELSE tokenFile

TakesNone == UNCHANGED <<held, tokenFile>>

(* A request that timed out at the spoke arrives after all. *)
ArrivesLate(t) ==
  /\ t \in wire /\ wire' = wire \ {t}
  /\ Takes(t)
  /\ UNCHANGED <<clock, lastMint, hubKnows, alive, record, passed, handed, offers, troubles>>

------------------------
(* The spoke. *)

Offer == offers < MaxOffers /\ offers' = offers + 1
Trouble == troubles < MaxTroubles /\ troubles' = troubles + 1

(* A delivery hands over the token minted when it was claimed; the turn    *)
(* itself may be refused after that.                                       *)
Deliver ==
  /\ alive /\ ~passed /\ Offer
  /\ lastMint' \in {lastMint, clock}
  /\ \/ /\ Takes(clock) /\ handed' = "yes"  \* the turn is accepted
        /\ record' = [record EXCEPT !.expires = Expiry(clock), !.retryAt = NoToken]
        /\ UNCHANGED <<wire, troubles>>
     \/ /\ Takes(clock)                    \* the agent refuses the turn
        /\ UNCHANGED <<record, wire, handed, troubles>>
     \/ /\ Trouble /\ TakesNone          \* no answer, in time
        /\ wire' \in {wire, wire \cup {clock}}
        /\ UNCHANGED <<record, handed>>
  /\ UNCHANGED <<clock, hubKnows, alive, passed>>

(* handle_intent, of an intent the hub offers again: the workload is       *)
(* tracked afresh.                                                         *)
IntentAgain ==
  /\ alive /\ ~passed /\ Offer
  /\ record' = Untold /\ handed' = IF handed = "yes" THEN "forgotten" ELSE handed
  /\ UNCHANGED <<clock, lastMint, hubKnows, alive, passed, held, tokenFile, wire, troubles>>

(* A minted token that expired before the agent took it is dropped. *)
Unpushed ==
  IF record.unpushed # NoToken /\ Expired(record.unpushed) THEN NoToken ELSE record.unpushed

Due ==
  /\ record.expires # NoToken
  /\ record.retryAt # NoToken => clock >= record.retryAt
  /\ Unpushed # NoToken \/ clock >= record.expires - Margin

(* The hub mints at most once in an interval. *)
MayMint == lastMint # NoToken => clock >= lastMint + MintInterval

(* Handed over: done, or tried again with the same token. *)
Push(t) ==
  \/ /\ Takes(t) /\ handed' = "yes"
     /\ record' = [expires |-> Expiry(t), retryAt |-> NoToken, unpushed |-> NoToken]
     /\ UNCHANGED <<wire, troubles>>
  \/ /\ Trouble /\ TakesNone
     /\ record' = [record EXCEPT !.retryAt = clock + PushRetry, !.unpushed = t]
     /\ wire' \in {wire, wire \cup {t}}
     /\ UNCHANGED handed

NoPush == TakesNone /\ UNCHANGED <<wire, handed>>

(* refresh_model_tokens, the last step of a pass. *)
Refresh ==
  /\ ~passed /\ passed' = TRUE
  /\ \/ /\ ~(alive /\ Due)
        /\ NoPush /\ UNCHANGED <<record, lastMint, troubles>>
     \/ /\ alive /\ Due
        /\ \E t \in {Unpushed} \ {NoToken} : Push(t)
        /\ UNCHANGED lastMint
     \/ /\ alive /\ Due /\ Unpushed = NoToken /\ hubKnows /\ MayMint
        /\ lastMint' = clock
        /\ \/ Push(clock)
           \/ /\ Trouble /\ NoPush  \* the hub's answer is lost
              /\ record' = [record EXCEPT !.unpushed = NoToken]
     \/ /\ alive /\ Due /\ Unpushed = NoToken /\ hubKnows /\ ~MayMint
        /\ NoPush  \* 429
        /\ record' = [record EXCEPT !.retryAt = clock + MintInterval, !.unpushed = NoToken]
        /\ UNCHANGED <<lastMint, troubles>>
     \/ /\ alive /\ Due /\ Unpushed = NoToken /\ ~hubKnows
        /\ NoPush  \* 404: not renewed any more
        /\ record' = [record EXCEPT !.expires = NoToken, !.unpushed = NoToken]
        /\ UNCHANGED <<lastMint, troubles>>
  /\ UNCHANGED <<clock, hubKnows, alive, offers>>

(* recover: the token the agent holds is unknown, so renewed at once. *)
SpokeRestarts ==
  /\ alive /\ Trouble
  /\ record' = [Untold EXCEPT !.expires = clock]
  /\ UNCHANGED <<clock, lastMint, hubKnows, alive, passed, held, tokenFile, wire, handed, offers>>

------------------------
(* The agent's process dies, its pod stays and with it the file; or ends   *)
(* and clears both.                                                        *)
AgentRestarts ==
  /\ alive /\ Trouble
  /\ held' = NoToken /\ wire' = {}
  /\ \/ UNCHANGED <<tokenFile, handed>>
     \/ tokenFile' = NoToken /\ handed' = "no"
  /\ UNCHANGED <<clock, lastMint, hubKnows, alive, record, passed, offers>>

WorkloadEnds ==
  /\ alive /\ alive' = FALSE
  /\ held' = NoToken /\ tokenFile' = NoToken /\ wire' = {} /\ handed' = "no"
  /\ UNCHANGED <<clock, lastMint, hubKnows, record, passed, offers, troubles>>

HubForgets ==
  /\ hubKnows /\ Trouble /\ hubKnows' = FALSE
  /\ UNCHANGED <<clock, lastMint, alive, record, passed, held, tokenFile, wire, handed, offers>>

(* Time passes; the loop may have missed the tick. *)
ClockTicks ==
  /\ clock < MaxTime /\ clock' = clock + 1
  /\ IF passed THEN UNCHANGED troubles ELSE Trouble
  /\ passed' = FALSE
  /\ UNCHANGED <<lastMint, hubKnows, alive, record, held, tokenFile, wire, handed, offers>>

TokensNext ==
  \/ Deliver \/ IntentAgain \/ Refresh \/ SpokeRestarts
  \/ \E t \in Tokens : ArrivesLate(t)
  \/ AgentRestarts \/ WorkloadEnds \/ HubForgets \/ ClockTicks

TokensSpec == TokensInit /\ [][TokensNext]_tokenVars

------------------------
(* An agent that was handed a token, and that the spoke did not forget     *)
(* (see StaysRenewed), always has one that has not expired, over as many   *)
(* missed passes, lost answers and refusals of the hub as the margin has   *)
(* room for: no model call of a live workload fails.                       *)
HeldIsCurrent ==
  alive /\ handed = "yes" /\ hubKnows =>
    tokenFile # NoToken /\ ~Expired(tokenFile)

(* A request that comes late never puts an older token in the place of the *)
(* one the agent's process holds, and the helper reads that one.           *)
HeldIsNewest ==
  [][held # NoToken => /\ tokenFile = held
                       /\ held' # NoToken => held' >= held]_tokenVars

(* The model token a workload works with is the newest and current: the    *)
(* two above, of every state and every step (with the types).              *)
TokenIsKept == [](TokensTypeOK /\ HeldIsCurrent) /\ HeldIsNewest

(* Every live workload that was handed a token is renewed, as long as the  *)
(* hub knows it (docs/design/spoke-pull-mode.md).  The code forgets it     *)
(* when the hub offers the workload's intent again: see README.            *)
StaysRenewed == alive /\ handed # "no" /\ hubKnows => record.expires # NoToken
========================
