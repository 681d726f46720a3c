----------------------------- MODULE Telemetry ------------------------------
(***************************************************************************)
(* POST /telemetry: the points of a batch are filtered one by one, and     *)
(* what is left is written as a whole, or not at all if the loop over it   *)
(* meets a point of another network; the address of the node is written    *)
(* in any case.                                                            *)
(***************************************************************************)
EXTENDS Integers, Sequences

CONSTANTS Versions,   \* version tags from MINIMUM_TELEMETRY_VERSION on
          Agents,     \* agent tags
          MaxPoints,  \* bound: points of a batch
          NoTag        \* no such tag; or a version that is too old, or is none

ASSUME TelemetryAssumption == MaxPoints \in Nat \ {0}

VARIABLES
  batch,     \* the points of the request
  place,     \* where its handler is: the loop, the point
  found,     \* nodeVersion, agent and options, as indices of points
  influx     \* what writePoints has handed over, in order

telemetryVars == <<batch, place, found, influx>>

\* Of a measurement it matters whether it is on the whitelist, with all or
\* some of its fields, and of block_propagation whether the sequence is a
\* multiple of BLOCK_PROPAGATION_INTERVAL or there is no integer sequence.
Point ==
  [version : Versions \cup {NoTag}, agent : Agents \cup {NoTag},
   measurement : {"unlisted", "all fields", "some fields",
                  "propagation", "propagation between"},
   networkId : {"own", "other", "none"}]

Address == [version : Versions, agent : Agents \cup {"unknown"}]

Found == [nodeVersion : Versions \cup {NoTag}, agent : Agents \cup {NoTag},
          options : Seq(1..MaxPoints)]

TelemetryTypeOK ==
  /\ batch \in Seq(Point) /\ Len(batch) <= MaxPoints
  /\ place \in [loop : {"idle", "process", "write", "address", "done"}, nth : 1..MaxPoints + 1]
  /\ found \in Found
  /\ influx \in [points : Seq(1..MaxPoints), addresses : Seq(Address)]

NothingFound == [nodeVersion |-> NoTag, agent |-> NoTag, options |-> <<>>]
At(loop, nth) == [loop |-> loop, nth |-> nth]

TelemetryInit ==
  /\ batch = <<>>
  /\ place = At("idle", 1)
  /\ found = NothingFound
  /\ influx = [points |-> <<>>, addresses |-> <<>>]

-----------------------------------------------------------------------------
PostPoints ==
  /\ place.loop = "idle"
  /\ \E n \in 0..MaxPoints : batch' \in [1..n -> Point]
  /\ place' = At("process", 1)
  /\ UNCHANGED <<found, influx>>

Passes(point) == point.measurement \notin {"unlisted", "propagation between"}

\* Mutant: the version and agent of a node are taken from listed points only.
MutProcessPoint ==
  /\ place.loop = "process"
  /\ place.nth <= Len(batch)
  /\ LET point == batch[place.nth]
     IN found' = IF point.version = NoTag \/ ~Passes(point) THEN found
                 ELSE [nodeVersion |-> point.version,
                       agent |-> IF point.agent = NoTag THEN found.agent ELSE point.agent,
                       options |-> Append(found.options, place.nth)]
  /\ place' = At("process", place.nth + 1)
  /\ UNCHANGED <<batch, influx>>

\* processPoints: a point without a version that counts is skipped; of one that
\* has it, version and agent are remembered although it may be filtered out.
ProcessPoint ==
  /\ place.loop = "process"
  /\ place.nth <= Len(batch)
  /\ LET point == batch[place.nth]
     IN found' = IF point.version = NoTag THEN found
                 ELSE [nodeVersion |-> point.version,
                       agent |-> IF point.agent = NoTag THEN found.agent ELSE point.agent,
                       options |-> IF Passes(point) THEN Append(found.options, place.nth)
                                   ELSE found.options]
  /\ place' = At("process", place.nth + 1)
  /\ UNCHANGED <<batch, influx>>

PointsProcessed ==
  /\ place.loop = "process"
  /\ place.nth > Len(batch)
  /\ place' = At(IF found.options = <<>> THEN "address" ELSE "write", 1)
  /\ UNCHANGED <<batch, found, influx>>

\* Mutant: a point of another network only skips itself.
MutWritePoint ==
  /\ place.loop = "write"
  /\ place.nth <= Len(found.options)
  /\ place' = At("write", place.nth + 1)
  /\ influx' = IF batch[found.options[place.nth]].networkId = "other" THEN influx
               ELSE [influx EXCEPT !.points = Append(@, found.options[place.nth])]
  /\ UNCHANGED <<batch, found>>

\* InfluxDbService.writePoints builds the points in a list of its own and
\* returns at once when one is of another network.
WritePoint ==
  /\ place.loop = "write"
  /\ place.nth <= Len(found.options)
  /\ place' = IF batch[found.options[place.nth]].networkId = "other" THEN At("address", 1)
              ELSE At("write", place.nth + 1)
  /\ UNCHANGED <<batch, found, influx>>

HandOver ==
  /\ place.loop = "write"
  /\ place.nth > Len(found.options)
  /\ influx' = [influx EXCEPT !.points = @ \o found.options]
  /\ place' = At("address", 1)
  /\ UNCHANGED <<batch, found>>

\* submitIpWithoutNodeFieldsToTelemetry, if any point had a version; its tags
\* name no network.
SubmitAddress ==
  /\ place.loop = "address"
  /\ influx' = IF found.nodeVersion = NoTag THEN influx
               ELSE [influx EXCEPT !.addresses = Append(@,
                       [version |-> found.nodeVersion,
                        agent |-> IF found.agent = NoTag THEN "unknown" ELSE found.agent])]
  /\ place' = At("done", 1)
  /\ UNCHANGED <<batch, found>>

-----------------------------------------------------------------------------
TelemetryNext ==
  \/ PostPoints \/ ProcessPoint \/ PointsProcessed \/ WritePoint \/ HandOver \/ SubmitAddress

TelemetrySpec == TelemetryInit /\ [][TelemetryNext]_telemetryVars

-----------------------------------------------------------------------------
Counts(i) == batch[i].version # NoTag
Wanted == {i \in DOMAIN batch : Counts(i) /\ Passes(batch[i])}
Written == {influx.points[i] : i \in DOMAIN influx.points}

\* The wanted points of a batch are written all, each once and in order, or
\* none is: none if and only if a wanted one is of another network; an unwanted
\* one of another network does no harm (influxdb.service.ts 36-67,
\* telemetry.controller.ts 116-172).
WholeBatchOrNone ==
  place.loop = "done" =>
    /\ Written = IF \E i \in Wanted : batch[i].networkId = "other" THEN {} ELSE Wanted
    /\ \A i, k \in DOMAIN influx.points : i < k => influx.points[i] < influx.points[k]

\* A node that sends any point with a version that counts has its address
\* written, once, although all its points are filtered out or dropped, with
\* the last of those versions, and an agent of such a point if one has it
\* (telemetry.controller.ts 128-139, 182-212).
NodeIsKnown ==
  place.loop = "done" =>
    LET counting == {i \in DOMAIN batch : Counts(i)}
        agents == {batch[i].agent : i \in counting} \ {NoTag}
    IN IF counting = {} THEN influx.addresses = <<>>
       ELSE /\ Len(influx.addresses) = 1
            /\ LET address == influx.addresses[1]
               IN /\ \E i \in counting : /\ \A k \in counting : k <= i
                                         /\ address.version = batch[i].version
                  /\ IF agents = {} THEN address.agent = "unknown"
                     ELSE address.agent \in agents

=============================================================================
