------------------------------ MODULE Bridges -------------------------------
(***************************************************************************)
(* The requests about bridges: ChainportService asks another company's     *)
(* service, which may answer anything, checks the answer against a schema, *)
(* and joins it with a second answer, or with the verified assets, which   *)
(* other requests change meanwhile.                                        *)
(***************************************************************************)
EXTENDS Integers, FiniteSets

CONSTANTS Tokens,      \* tokens Chainport may list, and their assets
          Networks,    \* networks it may reach
          MaxReposts   \* bound: changes of the assets

ASSUME BridgesAssumption == MaxReposts \in Nat

VARIABLES
  version,  \* CHAINPORT_API_VERSION
  asset,    \* what there is of a token's asset
  reposts,  \* how many changes of it there were
  bridge    \* the request at hand

bridgesVars == <<version, asset, reposts, bridge>>

\* Entries of an answer: missing, one a schema rejects, one with an empty
\* symbol, or a good one.
Entries == {"none", "bad", "bare", "ok"}

BridgeKinds == {"tokens", "networks", "paths", "create", "port"}

Bridge ==
  [pc : {"idle", "meta", "list", "paths", "outputs", "verify", "done"},
   kind : BridgeKinds, withTokens : BOOLEAN,
   meta : [Networks -> Entries],       \* cp_network_ids of GET /meta,
   noMap : BOOLEAN,                    \* or there was none
   left : SUBSET Tokens,               \* listed tokens still to look up
   tokens : SUBSET Tokens, networks : SUBSET Networks,  \* the answer
   status : {0, 200, 404, 422, 500, 502},
   sound : BOOLEAN,                    \* history: Chainport answered well,
   listed : SUBSET Tokens,             \* listed these tokens,
   targets : [Networks -> Entries],    \* and gave these targets
   ever : SUBSET Tokens, always : SUBSET Tokens]  \* history: verified meanwhile

BridgesTypeOK ==
  /\ version \in {1, 2}
  /\ asset \in [Tokens -> {"none", "unverified", "otherDecimals", "verified"}]
  /\ reposts \in 0..MaxReposts
  /\ bridge \in Bridge

Nowhere == [n \in Networks |-> "none"]

NoBridge ==
  [pc |-> "idle", kind |-> "networks", withTokens |-> FALSE, meta |-> Nowhere, noMap |-> FALSE,
   left |-> {}, tokens |-> {}, networks |-> {}, status |-> 0, sound |-> TRUE, listed |-> {},
   targets |-> Nowhere, ever |-> {}, always |-> {}]

BridgesInit ==
  /\ version \in {1, 2}
  /\ asset \in [Tokens -> {"none", "unverified", "verified"}]
  /\ reposts = 0
  /\ bridge = NoBridge

-----------------------------------------------------------------------------
Verified == {t \in Tokens : asset[t] = "verified"}

\* A job makes the asset, updateVerified makes and deletes its metadata.
ChangeAsset(t) ==
  /\ bridge.pc = "verify"
  /\ reposts < MaxReposts
  /\ reposts' = reposts + 1
  /\ \E now \in {"unverified", "otherDecimals", "verified"} \ {asset[t]} :
       asset' = [asset EXCEPT ![t] = now]
  /\ bridge' = [bridge EXCEPT !.ever = @ \cup Verified', !.always = @ \cap Verified']
  /\ UNCHANGED version

Proceed(new) == bridge' = new /\ UNCHANGED <<version, asset, reposts>>
Finish(status) == [bridge EXCEPT !.pc = "done", !.status = status, !.left = {}]

AskBridge ==
  /\ bridge.pc = "idle"
  /\ \E kind \in BridgeKinds, withTokens \in BOOLEAN :
       /\ withTokens => kind = "paths"
       /\ Proceed([bridge EXCEPT
            !.kind = kind, !.withTokens = withTokens,
            !.ever = Verified, !.always = Verified,
            !.pc = CASE kind = "tokens" -> "list"
                     [] kind \in {"networks", "paths"} -> "meta"
                     [] OTHER -> "outputs"])

\* makeChainportRequest: an error that Chainport explains becomes a 422, any
\* other one a 502.  An answer without the list or map asked for throws, where
\* that is first used.
RequestFails ==
  /\ bridge.pc \in {"meta", "list", "paths", "outputs"}
  /\ \/ \E status \in {422, 502} : Proceed([Finish(status) EXCEPT !.sound = FALSE])
     \/ /\ bridge.pc # "outputs" /\ (bridge.pc = "meta" => bridge.kind = "networks")
        /\ Proceed([Finish(500) EXCEPT !.sound = FALSE])

\* A schema accepts the entries it is given, or the answer is a 502.
Accepts(entries) == entries \cap {"bad", "none"} = {}

\* getNetworks: all of them have to be well formed.
GetNetworks(meta) ==
  LET there == {n \in Networks : meta[n] # "none"}
  IN IF Accepts({meta[n] : n \in there}) THEN [Finish(200) EXCEPT !.networks = there]
     ELSE Finish(502)

GetMeta ==
  /\ bridge.pc = "meta"
  /\ \E meta \in [Networks -> {"none", "bad", "ok"}], noMap \in BOOLEAN :
       LET new == IF bridge.kind = "networks" THEN GetNetworks(meta)
                  ELSE [bridge EXCEPT !.pc = IF version = 1 THEN "list" ELSE "paths"]
       IN /\ noMap => bridge.kind = "paths" /\ meta = Nowhere
          /\ Proceed([new EXCEPT !.meta = meta, !.noMap = noMap,
                                 !.sound = ~noMap /\ \A n \in Networks : meta[n] # "bad"])

\* getVerifiedTokens: all listed tokens have to be well formed, an empty symbol
\* is.
GetTokenList ==
  /\ bridge.pc = "list"
  /\ bridge.kind = "tokens"
  /\ \E list \in [Tokens -> Entries] :
       LET listed == {t \in Tokens : list[t] # "none"}
           good == Accepts({list[t] : t \in listed})
           new == IF good THEN [bridge EXCEPT !.pc = "verify", !.left = listed, !.listed = listed]
                  ELSE Finish(502)
       IN Proceed([new EXCEPT !.sound = good])

\* Mutant: the loop ends at the first token without an asset.
MutFindAssetOfToken(t) ==
  /\ bridge.pc = "verify"
  /\ t \in bridge.left
  /\ Proceed([bridge EXCEPT !.left = IF asset[t] = "none" THEN {} ELSE @ \ {t},
                            !.tokens = IF asset[t] = "verified" THEN @ \cup {t} ELSE @])

\* One token after the other is looked up; without an asset, without verified
\* metadata or with other decimals it is left out.
FindAssetOfToken(t) ==
  /\ bridge.pc = "verify"
  /\ t \in bridge.left
  /\ Proceed([bridge EXCEPT !.left = @ \ {t},
                            !.tokens = IF asset[t] = "verified" THEN @ \cup {t} ELSE @])

AnswerTokens ==
  /\ bridge.pc = "verify"
  /\ bridge.left = {}
  /\ Proceed(Finish(200))

\* Mutant: targets missing in meta are not skipped.
MutReached(targets) == {n \in Networks : targets[n] # "none"}

\* Targets that meta does not have are skipped.
Reached(targets) == {n \in Networks : targets[n] # "none" /\ bridge.meta[n] # "none"}

\* What is checked at the end of getTokenPaths.  The schema of a token with its
\* network wants a symbol; version 1 fills in tokens that have none.
Checked(targets) ==
  LET bare == version = 1 \/ \E n \in Reached(targets) : targets[n] = "bare"
  IN {bridge.meta[n] : n \in Reached(targets)} \cup
     (IF bridge.withTokens /\ bare /\ Reached(targets) # {} THEN {"bad"} ELSE {})

GetTokenPaths(targets) ==
  LET new == IF bridge.noMap /\ targets # Nowhere THEN Finish(500)
             ELSE IF Accepts(Checked(targets)) THEN [Finish(200) EXCEPT !.networks = Reached(targets)]
             ELSE Finish(502)
  IN Proceed([new EXCEPT !.targets = targets,
                         !.sound = @ /\ \A n \in Networks : targets[n] # "bare"])

\* Version 1: the targets are in the token's entry of the list, which is not
\* checked.
GetTokenPathsV1 ==
  /\ bridge.pc = "list"
  /\ bridge.kind = "paths"
  /\ \/ Proceed(Finish(404))
     \/ \E targets \in [Networks -> {"none", "ok"}] : GetTokenPaths(targets)

GetTokenPathsV2 ==
  /\ bridge.pc = "paths"
  /\ \E targets \in [Networks -> {"none", "bare", "ok"}] : GetTokenPaths(targets)

\* getIronFishMetadata is checked; getPort is handed on as it is.
GetOutputs ==
  /\ bridge.pc = "outputs"
  /\ \E good \in BOOLEAN :
       Proceed([Finish(IF good \/ bridge.kind = "port" THEN 200 ELSE 502) EXCEPT !.sound = good])

-----------------------------------------------------------------------------
BridgesNext ==
  \/ AskBridge \/ RequestFails \/ GetMeta \/ GetTokenList \/ AnswerTokens
  \/ \E t \in Tokens : FindAssetOfToken(t) \/ ChangeAsset(t)
  \/ GetTokenPathsV1 \/ GetTokenPathsV2 \/ GetOutputs

BridgesSpec == BridgesInit /\ [][BridgesNext]_bridgesVars

-----------------------------------------------------------------------------
\* A token that is offered was listed, and verified with the same decimals at
\* some time during the request; one that was so all the time is offered,
\* whatever happened to the others (chainport.service.ts 292-326).
BridgeableTokens ==
  bridge.kind = "tokens" /\ bridge.status = 200 =>
    /\ bridge.tokens \subseteq bridge.listed \cap bridge.ever
    /\ bridge.listed \cap bridge.always \subseteq bridge.tokens

\* As long as Chainport answers well, so does the API, with the networks that
\* both its answers have: nothing that one answer has and the other lacks turns
\* into an error - except that under version 1 with_tokens always does, if
\* there is anything to show (chainport.service.ts 329-428).
SoundIsServed ==
  bridge.pc = "done" /\ bridge.sound =>
    \/ /\ bridge.status = 200
       /\ bridge.kind = "paths" =>
            bridge.networks = {n \in Networks : /\ bridge.targets[n] # "none"
                                                /\ bridge.meta[n] # "none"}
    \/ bridge.status = 404 /\ bridge.kind = "paths" /\ version = 1
    \/ bridge.status = 502 /\ bridge.withTokens /\ version = 1

=============================================================================
