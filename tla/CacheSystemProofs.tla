-------------------------- MODULE CacheSystemProofs --------------------------
(***************************************************************************)
(* The cache between its two coroutines, for every geometry and stream.    *)
(***************************************************************************)
EXTENDS CacheSystem, TLAPS

-----------------------------------------------------------------------------
(***************************************************************************)
(* The registers of the cache for every geometry, every request stream and *)
(* whatever the memory side answers and when.                              *)
(***************************************************************************)
LineRegister ==
    [valid : BOOLEAN, dirty : BOOLEAN, tag : Tags \cup {None}, data : LineData \cup {None}]

RegistersTyped ==
    /\ lines \in [SetIds -> [WayIds -> LineRegister]]
    /\ lru_way \in [SetIds -> WayIds]
    /\ req_pending \in BOOLEAN /\ resp_valid_r \in BOOLEAN /\ mem_req_pending \in BOOLEAN
    /\ req_pending => req \in CpuRequests
    /\ \A s \in SetIds, w \in WayIds : lines[s][w].valid =>
          lines[s][w].tag \in Tags /\ lines[s][w].data \in LineData
    /\ resp_valid_r => resp_data \in Word \cup {[i \in 0 .. WordBytes - 1 |-> 0]}

(***************************************************************************)
(* The inductive invariant.  The three safety invariants need each other:  *)
(* a fill keeps a tag in one way because the request it serves missed when *)
(* it went out and no edge since then could make it a hit.                 *)
(***************************************************************************)
RtlInv ==
    /\ RegistersTyped
    /\ TagInOneWay
    /\ MemRequestIsMiss
    /\ MemRequestFitsVictim

LEMMA ReqFields ==
    ASSUME RegistersTyped, req_pending
    PROVE  /\ req \in CpuRequests /\ IsCpuRequest(req)
           /\ req.tag \in Tags /\ req.index \in SetIds
           /\ lru_way[req.index] \in WayIds
BY CpuRequestsAssumption DEF RegistersTyped, IsCpuRequest

LEMMA WordOfLine ==
    ASSUME NEW data \in LineData, NEW offset \in Nat, offset + WordBytes <= LineBytes
    PROVE  WordOf(data, offset) \in Word
BY GeometryAssumption DEF WordOf, Word, LineData

LEMMA HitWayMatches ==
    ASSUME RegistersTyped, TagInOneWay, req_pending, Hit
    PROVE  /\ HitWay \in WayIds
           /\ lines[req.index][HitWay].valid
           /\ lines[req.index][HitWay].tag = req.tag
           /\ lines[req.index][HitWay].data \in LineData
           /\ \A w \in Matches(req.index, req.tag) : w = HitWay
<1>1. req.index \in SetIds
  BY ReqFields
<1>2. \A v, w \in Matches(req.index, req.tag) : v = w
  BY <1>1 DEF TagInOneWay, Matches
<1>3. PICK v \in Matches(req.index, req.tag) : TRUE
  BY DEF Hit
<1>4. v \in Nat
  BY <1>3, GeometryAssumption DEF Matches, WayIds
<1>5. \A w \in Matches(req.index, req.tag) : w <= v
  BY <1>2, <1>3, <1>4
<1>6. HitWay \in Matches(req.index, req.tag)
  BY <1>3, <1>5 DEF HitWay
<1>7. QED
  BY <1>1, <1>2, <1>6 DEF Matches, RegistersTyped
-----------------------------------------------------------------------------
(***************************************************************************)
(* One lemma for each way an edge can change the lines.                    *)
(***************************************************************************)
LEMMA PointPastHitTyped ==
    ASSUME RegistersTyped, TagInOneWay, req_pending, Hit, PointPastHit
    PROVE  lru_way' \in [SetIds -> WayIds]
<1>1. HitWay \in WayIds
  BY HitWayMatches
<1>2. (IF HitWay = Ways - 1 THEN 0 ELSE HitWay + 1) \in WayIds
  BY <1>1, GeometryAssumption DEF WayIds
<1>3. req.index \in SetIds
  BY ReqFields
<1>4. QED
  BY <1>2, <1>3 DEF PointPastHit, RegistersTyped

LEMMA ResetKeepsInv ==
    ASSUME RtlInv, ResetEdge
    PROVE  RtlInv'
<1>1. 0 \in WayIds
  BY GeometryAssumption DEF WayIds
<1> DEFINE cleared(s, w) == [lines[s][w] EXCEPT !.valid = FALSE, !.dirty = FALSE]
<1>2. \A s \in SetIds, w \in WayIds : lines[s][w] \in LineRegister
  BY DEF RtlInv, RegistersTyped
<1>3. \A s \in SetIds, w \in WayIds :
         cleared(s, w) \in LineRegister /\ cleared(s, w).valid = FALSE
  BY <1>2 DEF LineRegister
<1>4. lines' = [s \in SetIds |-> [w \in WayIds |-> cleared(s, w)]]
  BY DEF ResetEdge
<1>5. /\ \A s \in SetIds, w \in WayIds : lines'[s][w].valid = FALSE
      /\ lines' \in [SetIds -> [WayIds -> LineRegister]]
  <2> HIDE DEF cleared
  <2> QED
    BY <1>3, <1>4
<1>6. RegistersTyped'
  BY <1>1, <1>5 DEF ResetEdge, RegistersTyped
<1>7. QED
  BY <1>5, <1>6 DEF ResetEdge, RtlInv, TagInOneWay, MemRequestIsMiss, MemRequestFitsVictim

\* A fill replaces the victim and nothing else.
LEMMA FillEffect ==
    ASSUME RtlInv, NEW data \in LineData, FillLine(data)
    PROVE  LET new == [valid |-> TRUE, dirty |-> FALSE, tag |-> req.tag, data |-> data]
           IN  /\ lines' \in [SetIds -> [WayIds -> LineRegister]]
               /\ \A s \in SetIds, w \in WayIds :
                     lines'[s][w] = IF s = req.index /\ w = lru_way[req.index] THEN new
                                    ELSE lines[s][w]
<1> DEFINE s0 == req.index
           w0 == lru_way[req.index]
           new == [valid |-> TRUE, dirty |-> FALSE, tag |-> req.tag, data |-> data]
<1>1. req.tag \in Tags /\ s0 \in SetIds /\ w0 \in WayIds
  BY ReqFields DEF RtlInv, MemRequestIsMiss, FillLine
<1>2. new \in LineRegister
  BY <1>1 DEF LineRegister
<1>3. /\ lines' = [lines EXCEPT ![s0][w0] = new]
      /\ lines \in [SetIds -> [WayIds -> LineRegister]]
  BY DEF FillLine, RtlInv, RegistersTyped
<1> HIDE DEF new, s0, w0
<1>4. /\ lines' \in [SetIds -> [WayIds -> LineRegister]]
      /\ \A s \in SetIds, w \in WayIds :
            lines'[s][w] = IF s = s0 /\ w = w0 THEN new ELSE lines[s][w]
  BY <1>1, <1>2, <1>3
<1> QED
  BY <1>4 DEF new, s0, w0

LEMMA FillKeepsInv ==
    ASSUME RtlInv, NEW data \in LineData, FillLine(data)
    PROVE  RtlInv'
<1> DEFINE s0 == req.index
           w0 == lru_way[req.index]
           new == [valid |-> TRUE, dirty |-> FALSE, tag |-> req.tag, data |-> data]
<1>1. req_pending /\ ~Hit
  BY DEF RtlInv, MemRequestIsMiss, FillLine
<1>2. /\ req \in CpuRequests /\ IsCpuRequest(req)
      /\ req.tag \in Tags /\ s0 \in SetIds /\ w0 \in WayIds
  BY <1>1, ReqFields DEF RtlInv
<1>5. /\ lines' \in [SetIds -> [WayIds -> LineRegister]]
      /\ \A s \in SetIds, w \in WayIds :
            lines'[s][w] = IF s = s0 /\ w = w0 THEN new ELSE lines[s][w]
  BY FillEffect
<1>6. WordOf(data, req.offset) \in Word
  BY <1>2, WordOfLine DEF IsCpuRequest
<1>7. /\ resp_valid_r' = TRUE /\ resp_data' \in Word /\ req_pending' = FALSE
      /\ mem_req_pending' = FALSE /\ lru_way' = lru_way
  BY <1>6 DEF FillLine, Respond
<1>8. RegistersTyped'
  <2>1. new.tag \in Tags /\ new.data \in LineData
    BY <1>2
  <2>2. \A s \in SetIds, w \in WayIds : lines'[s][w].valid =>
           lines'[s][w].tag \in Tags /\ lines'[s][w].data \in LineData
    <3> HIDE DEF new, s0, w0
    <3> QED
      BY <1>5, <2>1 DEF RtlInv, RegistersTyped
  <2> QED
    BY <1>5, <1>7, <2>2 DEF RtlInv, RegistersTyped
<1>9. \A w \in WayIds : lines[s0][w].valid => lines[s0][w].tag # req.tag
  BY <1>1 DEF Hit, Matches
<1>10. TagInOneWay'
  BY <1>2, <1>5, <1>9 DEF RtlInv, TagInOneWay
<1>11. QED
  BY <1>7, <1>8, <1>10 DEF RtlInv, MemRequestIsMiss, MemRequestFitsVictim

LEMMA ReadHitKeepsInv ==
    ASSUME RtlInv, ReadHit
    PROVE  RtlInv'
<1>1. req_pending /\ Hit /\ ~mem_req_pending
  BY DEF ReadHit, Processing, RtlInv, MemRequestIsMiss, RegistersTyped
<1>2. req \in CpuRequests /\ IsCpuRequest(req)
  BY <1>1, ReqFields DEF RtlInv
<1>3. lines[req.index][HitWay].data \in LineData
  BY <1>1, HitWayMatches DEF RtlInv
<1>4. WordOf(lines[req.index][HitWay].data, req.offset) \in Word
  BY <1>2, <1>3, WordOfLine DEF IsCpuRequest
<1>5. lru_way' \in [SetIds -> WayIds]
  BY <1>1, PointPastHitTyped DEF RtlInv, ReadHit
<1>6. /\ resp_valid_r' = TRUE /\ resp_data' \in Word /\ req_pending' = FALSE
      /\ mem_req_pending' = FALSE /\ lines' = lines
  BY <1>1, <1>4 DEF ReadHit, Respond, RtlInv, RegistersTyped
<1>7. RegistersTyped'
  BY <1>5, <1>6 DEF RtlInv, RegistersTyped
<1>8. QED
  BY <1>6, <1>7 DEF RtlInv, TagInOneWay, MemRequestIsMiss, MemRequestFitsVictim

\* A write that hits changes the data of the line that it hits, and makes it dirty.
LEMMA WriteHitEffect ==
    ASSUME RtlInv, WriteHit
    PROVE  LET old == lines[req.index][HitWay]
               bytes == [b \in DOMAIN old.data |-> IF b - req.offset \in req.wmask
                                                   THEN req.wdata[b - req.offset]
                                                   ELSE old.data[b]]
           IN  /\ bytes \in LineData
               /\ lines' \in [SetIds -> [WayIds -> LineRegister]]
               /\ \A s \in SetIds, w \in WayIds :
                     lines'[s][w] = IF s = req.index /\ w = HitWay
                                    THEN [old EXCEPT !.data = bytes, !.dirty = TRUE]
                                    ELSE lines[s][w]
<1> DEFINE s0 == req.index
           old == lines[req.index][HitWay]
           bytes == [b \in DOMAIN old.data |-> IF b - req.offset \in req.wmask
                                               THEN req.wdata[b - req.offset]
                                               ELSE old.data[b]]
           new == [old EXCEPT !.data = bytes, !.dirty = TRUE]
<1>1. req_pending /\ Hit
  BY DEF WriteHit, Processing
<1>2. IsCpuRequest(req) /\ s0 \in SetIds
  BY <1>1, ReqFields DEF RtlInv
<1>3. HitWay \in WayIds /\ old.data \in LineData
  BY <1>1, HitWayMatches DEF RtlInv
<1>4. bytes \in LineData
  BY <1>2, <1>3 DEF LineData, Word, IsCpuRequest
<1>5. old \in LineRegister
  BY <1>2, <1>3 DEF RtlInv, RegistersTyped
<1>6. new \in LineRegister
  <2> HIDE DEF old, bytes
  <2> QED
    BY <1>4, <1>5 DEF LineRegister
<1>7. /\ lines' = [lines EXCEPT ![s0][HitWay] = new]
      /\ lines \in [SetIds -> [WayIds -> LineRegister]]
  BY <1>2, <1>3 DEF WriteHit, RtlInv, RegistersTyped, LineRegister
<1>8. /\ lines' \in [SetIds -> [WayIds -> LineRegister]]
      /\ \A s \in SetIds, w \in WayIds :
            lines'[s][w] = IF s = s0 /\ w = HitWay THEN new ELSE lines[s][w]
  <2> HIDE DEF new, s0
  <2> QED
    BY <1>2, <1>3, <1>6, <1>7
<1> QED
  BY <1>4, <1>8

LEMMA WriteHitKeepsInv ==
    ASSUME RtlInv, WriteHit
    PROVE  RtlInv'
<1> DEFINE s0 == req.index
           old == lines[req.index][HitWay]
           bytes == [b \in DOMAIN old.data |-> IF b - req.offset \in req.wmask
                                               THEN req.wdata[b - req.offset]
                                               ELSE old.data[b]]
           new == [old EXCEPT !.data = bytes, !.dirty = TRUE]
<1>1. req_pending /\ Hit /\ ~mem_req_pending
  BY DEF WriteHit, Processing, RtlInv, MemRequestIsMiss, RegistersTyped
<1>2. req \in CpuRequests /\ IsCpuRequest(req) /\ s0 \in SetIds
  BY <1>1, ReqFields DEF RtlInv
<1>3. HitWay \in WayIds /\ old.valid /\ old.data \in LineData
  BY <1>1, HitWayMatches DEF RtlInv
<1>5. old \in LineRegister
  BY <1>2, <1>3 DEF RtlInv, RegistersTyped
<1>4. bytes \in LineData
  BY WriteHitEffect
<1>6. /\ new \in LineRegister /\ new.valid = old.valid /\ new.tag = old.tag
      /\ new.data \in LineData
  <2> HIDE DEF old, bytes
  <2> QED
    BY <1>4, <1>5 DEF LineRegister
<1>7. /\ lines' \in [SetIds -> [WayIds -> LineRegister]]
      /\ \A s \in SetIds, w \in WayIds :
            lines'[s][w] = IF s = s0 /\ w = HitWay THEN new ELSE lines[s][w]
  BY WriteHitEffect
<1>8. lru_way' \in [SetIds -> WayIds]
  BY <1>1, PointPastHitTyped DEF RtlInv, WriteHit
<1>9. /\ resp_valid_r' = TRUE /\ resp_data' = [i \in 0 .. WordBytes - 1 |-> 0]
      /\ req_pending' = FALSE /\ mem_req_pending' = FALSE
  BY <1>1 DEF WriteHit, Respond, RtlInv, RegistersTyped
<1>10. \A s \in SetIds, w \in WayIds :
          /\ lines'[s][w].valid = lines[s][w].valid
          /\ lines'[s][w].tag = lines[s][w].tag
  <2> HIDE DEF new, s0
  <2> QED
    BY <1>6, <1>7 DEF s0
<1>11. \A s \in SetIds, w \in WayIds : lines'[s][w].valid =>
          lines'[s][w].tag \in Tags /\ lines'[s][w].data \in LineData
  <2> HIDE DEF new, s0
  <2> QED
    BY <1>6, <1>7, <1>10 DEF RtlInv, RegistersTyped
<1>12. RegistersTyped'
  BY <1>7, <1>8, <1>9, <1>11 DEF RegistersTyped
<1>13. TagInOneWay'
  BY <1>10 DEF RtlInv, TagInOneWay
<1>14. QED
  BY <1>9, <1>12, <1>13 DEF RtlInv, MemRequestIsMiss, MemRequestFitsVictim

\* Accepting a request: it is one of the stream's, and no memory request is out.
LEMMA AcceptKeepsInv ==
    ASSUME RtlInv, NEW r \in CpuRequests, NEW resp_ready, AcceptRequest(r, resp_ready)
    PROVE  RtlInv'
<1>1. /\ mem_req_pending' = FALSE /\ req_pending' = TRUE /\ req' \in CpuRequests
      /\ lines' = lines /\ lru_way' = lru_way /\ resp_data' = resp_data
      /\ resp_valid_r' \in BOOLEAN /\ (resp_valid_r' => resp_valid_r)
  BY DEF AcceptRequest, Ready, ClearResponse, RtlInv, RegistersTyped
<1>2. RegistersTyped'
  BY <1>1 DEF RtlInv, RegistersTyped
<1>3. QED
  BY <1>1, <1>2 DEF RtlInv, TagInOneWay, MemRequestIsMiss, MemRequestFitsVictim

\* Raising a memory request: the line and the victim are those of this edge.
LEMMA MemRequestKeepsInv ==
    ASSUME RtlInv, RequestWriteback \/ RequestFill
    PROVE  RtlInv'
<1>1. /\ mem_req_pending' = TRUE
      /\ UNCHANGED <<lines, lru_way, req_pending, req, resp_valid_r, resp_data>>
      /\ req_pending /\ ~resp_valid_r /\ ~Hit
  BY DEF RequestWriteback, RequestFill, Processing
<1>2. RegistersTyped' /\ TagInOneWay'
  BY <1>1 DEF RtlInv, RegistersTyped, TagInOneWay
<1>3. MemRequestIsMiss'
  BY <1>1 DEF MemRequestIsMiss, Hit, Matches
<1>4. MemRequestFitsVictim'
  <2>1. CASE RequestWriteback
    BY <1>1, <2>1 DEF RequestWriteback, MemRequestFitsVictim, VictimIsDirty, Victim
  <2>2. CASE RequestFill
    BY <1>1, <2>2 DEF RequestFill, MemRequestFitsVictim, VictimIsDirty, Victim
  <2>3. QED
    BY <2>1, <2>2
<1>5. QED
  BY <1>2, <1>3, <1>4 DEF RtlInv

LEMMA WaitKeepsInv ==
    ASSUME RtlInv, NEW req_valid, NEW resp_ready, NEW mem_resp_valid,
           Wait(req_valid, resp_ready, mem_resp_valid)
    PROVE  RtlInv'
<1>1. /\ UNCHANGED <<lines, lru_way, req_pending, req, resp_data, mem_req_pending, mem_req>>
      /\ resp_valid_r' \in BOOLEAN /\ (resp_valid_r' => resp_valid_r)
  BY DEF Wait, ClearResponse, RtlInv, RegistersTyped
<1>2. RegistersTyped' /\ TagInOneWay'
  BY <1>1 DEF RtlInv, RegistersTyped, TagInOneWay
<1>3. MemRequestIsMiss'
  BY <1>1 DEF RtlInv, MemRequestIsMiss, Hit, Matches
<1>4. MemRequestFitsVictim'
  BY <1>1 DEF RtlInv, MemRequestFitsVictim, VictimIsDirty, Victim
<1>5. QED
  BY <1>2, <1>3, <1>4 DEF RtlInv

\* Nothing changed.
LEMMA StutterKeepsInv ==
    ASSUME RtlInv, UNCHANGED rtlVars
    PROVE  RtlInv'
<1>1. RegistersTyped' /\ TagInOneWay'
  BY DEF rtlVars, RtlInv, RegistersTyped, TagInOneWay
<1>2. MemRequestIsMiss'
  BY DEF rtlVars, RtlInv, MemRequestIsMiss, Hit, Matches
<1>3. MemRequestFitsVictim'
  BY DEF rtlVars, RtlInv, MemRequestFitsVictim, VictimIsDirty, Victim
<1>4. QED
  BY <1>1, <1>2, <1>3 DEF RtlInv

\* An edge, whatever is on the inputs that it does not sample.
LEMMA EdgeKeepsInv ==
    ASSUME RtlInv,
           NEW req_valid \in BOOLEAN, NEW r, req_valid => r \in CpuRequests,
           NEW resp_ready, NEW mem_resp_valid \in BOOLEAN,
           NEW data, mem_resp_valid /\ mem_req_pending => data \in LineData,
           ClockEdge(req_valid, r, resp_ready, mem_resp_valid, data)
    PROVE  RtlInv'
<1>1. CASE req_valid /\ AcceptRequest(r, resp_ready)
  BY <1>1, AcceptKeepsInv
<1>2. CASE mem_resp_valid /\ FillLine(data)
  <2>1. data \in LineData
    BY <1>2 DEF FillLine
  <2>2. QED
    BY <1>2, <2>1, FillKeepsInv
<1>3. CASE ReadHit
  BY <1>3, ReadHitKeepsInv
<1>4. CASE WriteHit
  BY <1>4, WriteHitKeepsInv
<1>5. CASE RequestWriteback \/ RequestFill
  BY <1>5, MemRequestKeepsInv
<1>6. CASE Wait(req_valid, resp_ready, mem_resp_valid)
  BY <1>6, WaitKeepsInv
<1>7. QED
  BY <1>1, <1>2, <1>3, <1>4, <1>5, <1>6 DEF ClockEdge

LEMMA RtlInitHolds == ASSUME RtlInit PROVE RtlInv
<1>1. 0 \in WayIds
  BY GeometryAssumption DEF WayIds
<1>2. lines \in [SetIds -> [WayIds -> LineRegister]]
  BY DEF RtlInit, LineRegister
<1>3. \A s \in SetIds, w \in WayIds : lines[s][w].valid = FALSE
  BY DEF RtlInit
<1>4. RegistersTyped
  BY <1>1, <1>2, <1>3 DEF RtlInit, RegistersTyped
<1>5. QED
  BY <1>3, <1>4 DEF RtlInit, RtlInv, TagInOneWay, MemRequestIsMiss, MemRequestFitsVictim
-----------------------------------------------------------------------------
(***************************************************************************)
(* The invariant holds of always @(posedge clock) with free inputs.        *)
(***************************************************************************)
THEOREM RtlInvariant == RtlSpec => []RtlInv
<1>1. RtlInit => RtlInv
  BY RtlInitHolds
<1>2. RtlInv /\ [RtlNext]_rtlVars => RtlInv'
  <2> SUFFICES ASSUME RtlInv, [RtlNext]_rtlVars PROVE RtlInv'
    OBVIOUS
  <2>1. ASSUME NEW req_valid \in BOOLEAN, NEW resp_ready \in BOOLEAN,
               NEW mem_resp_valid \in BOOLEAN,
               NEW r \in CpuRequests, NEW data \in LineData,
               ClockEdge(req_valid, r, resp_ready, mem_resp_valid, data)
        PROVE  RtlInv'
    BY <2>1, EdgeKeepsInv
  <2>2. CASE ResetEdge
    BY <2>2, ResetKeepsInv
  <2>3. CASE UNCHANGED rtlVars
    BY <2>3, StutterKeepsInv
  <2>4. QED
    BY <2>1, <2>2, <2>3 DEF RtlNext
<1>3. QED
  BY <1>1, <1>2, PTL DEF RtlSpec

(***************************************************************************)
(* The registers are of their types where the machine reads them.          *)
(***************************************************************************)
THEOREM RtlTypesCorrect == RtlSpec => []RtlTypeOK
<1>1. RtlInv => RtlTypeOK
  BY DEF RtlInv, RegistersTyped, RtlTypeOK
<1>2. QED
  BY <1>1, RtlInvariant, PTL

(***************************************************************************)
(* No set holds a tag twice, whatever the memory side answers and when: so *)
(* the loop that finds the hit way (NutShellCache.v:85) has one answer.    *)
(***************************************************************************)
THEOREM TagsAreUnique == RtlSpec => []TagInOneWay
<1>1. RtlInv => TagInOneWay
  BY DEF RtlInv
<1>2. QED
  BY <1>1, RtlInvariant, PTL

(***************************************************************************)
(* A memory request stands for a request that waits and misses: a fill     *)
(* never meets a hit or an acceptance in one edge, so the order of the     *)
(* nonblocking assignments in the always block never matters.              *)
(***************************************************************************)
THEOREM MemRequestsAreMisses == RtlSpec => []MemRequestIsMiss
<1>1. RtlInv => MemRequestIsMiss
  BY DEF RtlInv
<1>2. QED
  BY <1>1, RtlInvariant, PTL

(***************************************************************************)
(* As long as a memory request is out it names the dirty victim with its   *)
(* data, or the line asked for over a victim that is not dirty.            *)
(***************************************************************************)
THEOREM MemRequestsFit == RtlSpec => []MemRequestFitsVictim
<1>1. RtlInv => MemRequestFitsVictim
  BY DEF RtlInv
<1>2. QED
  BY <1>1, RtlInvariant, PTL

-----------------------------------------------------------------------------
(***************************************************************************)
(* The cache between its two coroutines.                                   *)
(***************************************************************************)
SystemTyped ==
    /\ cpu \in {"idle", "driving", "sampling", "resetting"}
    /\ cpu = "driving" => cpu_req \in CpuRequests
    /\ waited \in Nat
    /\ agent \in {"monitoring", "taken", "driving"}
    /\ hold \in Nat
    /\ memory \in [LineAddresses -> LineData]
    /\ view \in [LineAddresses -> LineData]
    /\ mem_req_pending => mem_req.write \in BOOLEAN
    /\ agent = "taken" => /\ taken.addr \in LineAddresses
                          /\ taken.write \in BOOLEAN
                          /\ taken.write => taken.wdata \in LineData
    /\ agent = "driving" /\ hold > 0 => rdata \in LineData

\* What the cache holds in each phase of the CPU side.
Phases ==
    /\ cpu = "sampling" => (req_pending <=> ~resp_valid_r)
    /\ cpu = "idle" => ~resp_valid_r /\ (req_pending => mem_req_pending /\ mem_req.write)
    /\ cpu = "driving" => ~resp_valid_r /\ req_pending /\ mem_req_pending /\ mem_req.write
    /\ cpu = "resetting" =>
          /\ ~resp_valid_r /\ ~req_pending /\ ~mem_req_pending
          /\ \A s \in SetIds, w \in WayIds : ~lines[s][w].valid
          /\ waited \in 1 .. ResetCycles + 1

\* How long the CPU side has waited when a memory request is this far.
Punctual ==
    /\ cpu = "sampling" /\ ~resp_valid_r /\ ~mem_req_pending => waited = 0
    /\ mem_req_pending /\ ~mem_req.write =>
          /\ cpu = "sampling"
          /\ agent = "driving" => waited <= 1
          /\ agent = "monitoring" => waited <= 2
          /\ agent = "taken" => waited <= 3
    /\ mem_req_pending /\ agent = "driving" /\ hold > 0 => cpu = "sampling" /\ waited = 1

\* What serve_one works on is the request that is out, or the writeback that a reset met.
TakenIsOut ==
    agent = "taken" =>
        \/ mem_req_pending /\ taken = mem_req
        \/ taken.write /\ cpu = "resetting" /\ waited = ResetCycles + 1

ControlInv == RtlInv /\ SystemTyped /\ Phases /\ Punctual /\ TakenIsOut

\* A fill response is gone from the bus before the next memory request is out.
HoldInv ==
    agent = "driving" =>
        /\ hold <= 3
        /\ cpu \in {"idle", "resetting"} => hold <= 2
        /\ cpu = "sampling" /\ ~resp_valid_r /\ ~mem_req_pending => hold <= 1
        /\ mem_req_pending => hold = 0

MergedInto(data, r) ==
    [b \in DOMAIN data |-> IF b - r.offset \in r.wmask THEN r.wdata[b - r.offset] ELSE data[b]]

\* A write that is accepted hits, and is in the program's view already.
WriteOnItsWay ==
    /\ Hit
    /\ \A l \in LineAddresses :
          view[l] = IF l = <<req.tag, req.index>> THEN MergedInto(CurrentLine(l), req)
                    ELSE CurrentLine(l)

ViewIsKept ==
    \/ cpu = "resetting"
    \/ IF req_pending /\ req.write THEN WriteOnItsWay
       ELSE \A l \in LineAddresses : CurrentLine(l) = view[l]
-----------------------------------------------------------------------------
(***************************************************************************)
(* One cycle of the memory side.                                           *)
(***************************************************************************)
LEMMA AgentMoves ==
    ASSUME AgentCycle, SystemTyped
    PROVE  /\ agent' = "taken" => ~Serving /\ mem_req_pending /\ taken' = mem_req
           /\ agent' = "monitoring" =>
                 ~Serving /\ (mem_req_pending => agent \in {"taken", "driving"})
           /\ agent' = "driving" =>
                 /\ Serving
                 /\ agent = "taken" => hold' = Latency
                 /\ agent = "driving" => hold > 0 /\ hold' = hold - 1
           /\ agent' \in {"monitoring", "taken", "driving"}
  BY DEF AgentCycle, TakeMemRequest, LeaveMemRequest, StartFill, HoldFill, Serving, SystemTyped

LEMMA MemRequestTyped ==
    ASSUME RtlInv, mem_req_pending, mem_req.write \in BOOLEAN
    PROVE  /\ mem_req.addr \in LineAddresses
           /\ mem_req.write => mem_req.wdata \in LineData
  <1>1. req_pending
    BY DEF RtlInv, MemRequestIsMiss
  <1>2. req.tag \in Tags /\ req.index \in SetIds /\ lru_way[req.index] \in WayIds
    BY <1>1, ReqFields DEF RtlInv
  <1>3. Victim.valid => Victim.tag \in Tags /\ Victim.data \in LineData
    BY <1>2 DEF RtlInv, RegistersTyped, Victim
  <1> QED
    BY <1>2, <1>3 DEF RtlInv, MemRequestFitsVictim, VictimIsDirty, LineAddresses

LEMMA AgentKeepsTypes ==
    ASSUME RtlInv, SystemTyped, AgentCycle
    PROVE  /\ agent' \in {"monitoring", "taken", "driving"}
           /\ hold' \in Nat
           /\ memory' \in [LineAddresses -> LineData]
           /\ agent' = "taken" => /\ taken'.addr \in LineAddresses
                                  /\ taken'.write \in BOOLEAN
                                  /\ taken'.write => taken'.wdata \in LineData
           /\ agent' = "driving" /\ hold' > 0 => rdata' \in LineData
  <1>1. memory' = memory \/ (agent = "taken" /\ taken.write
                             /\ memory' = [memory EXCEPT ![taken.addr] = taken.wdata])
    BY DEF AgentCycle, TakeMemRequest, LeaveMemRequest, StartFill, HoldFill, StoreTaken
  <1>2. memory' \in [LineAddresses -> LineData]
    BY <1>1 DEF SystemTyped
  <1>3. hold' \in Nat
    BY SystemConstantsAssumption
       DEF SystemTyped, AgentCycle, TakeMemRequest, LeaveMemRequest, StartFill, HoldFill
  <1>4. agent' = "taken" => /\ taken'.addr \in LineAddresses
                            /\ taken'.write \in BOOLEAN
                            /\ taken'.write => taken'.wdata \in LineData
    BY AgentMoves, MemRequestTyped DEF SystemTyped
  <1>5. agent' = "driving" /\ hold' > 0 => rdata' \in LineData
    <2>1. CASE StartFill
      BY <2>1 DEF StartFill, SystemTyped
    <2>2. CASE HoldFill
      BY <2>2 DEF HoldFill, SystemTyped
    <2> QED
      BY <2>1, <2>2 DEF AgentCycle, TakeMemRequest, LeaveMemRequest
  <1> QED
    BY <1>2, <1>3, <1>4, <1>5, AgentMoves

\* The data of an edge that fills is a line.
LEMMA ServedLine ==
    ASSUME SystemTyped, Serving
    PROVE  MemRespData \in LineData
  BY DEF SystemTyped, Serving, MemRespData

LEMMA CycleKeepsRtl ==
    ASSUME RtlInv, SystemTyped, NEW req_valid \in BOOLEAN, NEW r,
           req_valid => r \in CpuRequests, NEW resp_ready,
           Cycle(req_valid, r, resp_ready)
    PROVE  RtlInv'
  <1>1. Serving \in BOOLEAN
    BY DEF Serving
  <1>2. Serving /\ mem_req_pending => MemRespData \in LineData
    BY ServedLine
  <1> QED
    BY <1>1, <1>2, EdgeKeepsInv DEF Cycle
-----------------------------------------------------------------------------
(***************************************************************************)
(* One edge, by what the CPU side is doing.                                *)
(***************************************************************************)

\* While a writeback is out and nobody samples its answer, nothing moves.
LEMMA StuckEdge ==
    ASSUME ControlInv, req_pending, mem_req_pending, mem_req.write,
           cpu # "sampling" \/ waited > 3,
           NEW req_valid, NEW r, NEW resp_ready, Cycle(req_valid, r, resp_ready)
    PROVE  /\ UNCHANGED <<lines, lru_way, req_pending, req, mem_req_pending, mem_req>>
           /\ ~resp_valid_r'
           /\ ~Serving
  <1>1. ~Serving
    BY DEF ControlInv, Serving, TakenIsOut, Punctual, SystemTyped
  <1>2. ~resp_valid_r /\ ~Hit /\ ~Ready
    BY DEF ControlInv, RtlInv, MemRequestIsMiss, Ready
  <1>3. Wait(req_valid, resp_ready, Serving)
    BY <1>1, <1>2 DEF Cycle, ClockEdge, AcceptRequest, ReadHit, WriteHit, RequestWriteback,
                      RequestFill
  <1> QED
    BY <1>1, <1>2, <1>3 DEF Wait, ClearResponse

\* With nothing in the cache an edge accepts a request or does nothing.
LEMMA QuietEdge ==
    ASSUME ControlInv, ~req_pending,
           NEW req_valid, NEW r, NEW resp_ready, Cycle(req_valid, r, resp_ready)
    PROVE  /\ ~mem_req_pending /\ Ready
           /\ resp_valid_r' = (resp_valid_r /\ ~resp_ready)
           /\ UNCHANGED <<lines, lru_way, mem_req_pending, resp_data>>
           /\ IF req_valid THEN req_pending' = TRUE /\ req' = r
              ELSE UNCHANGED <<req_pending, req>>
  <1>1. ~mem_req_pending /\ Ready
    BY DEF ControlInv, RtlInv, MemRequestIsMiss, RegistersTyped, Ready
  <1>2. \/ req_valid /\ AcceptRequest(r, resp_ready)
        \/ Wait(req_valid, resp_ready, Serving)
    BY <1>1 DEF Cycle, ClockEdge, FillLine, ReadHit, WriteHit, RequestWriteback, RequestFill,
                Processing
  <1> QED
    BY <1>1, <1>2 DEF Wait, AcceptRequest, ClearResponse

\* The four things an edge can do for a request that waits for its response.
FillEdge == mem_req_pending /\ Serving /\ FillLine(MemRespData)
HitEdge == ~mem_req_pending /\ (ReadHit \/ WriteHit)
RequestEdge == ~mem_req_pending /\ (RequestWriteback \/ RequestFill)
WaitEdge == mem_req_pending /\ ~Serving /\ Wait(FALSE, FALSE, Serving)

LEMMA AwaitingEdge ==
    ASSUME ControlInv, req_pending, ~resp_valid_r, Cycle(FALSE, None, FALSE)
    PROVE  FillEdge \/ HitEdge \/ RequestEdge \/ WaitEdge
  <1>1. mem_req_pending \in BOOLEAN /\ (mem_req_pending => ~Hit)
    BY DEF ControlInv, RtlInv, MemRequestIsMiss, RegistersTyped
  <1>2. Processing
    BY DEF Processing
  <1> QED
    BY <1>1, <1>2 DEF Cycle, ClockEdge, FillEdge, HitEdge, RequestEdge, WaitEdge, FillLine,
           ReadHit, WriteHit, RequestWriteback, RequestFill, Wait

-----------------------------------------------------------------------------
(***************************************************************************)
(* The control of both sides, one action of the CPU side at a time.        *)
(***************************************************************************)
LEMMA MemRequestStaysTyped ==
    ASSUME SystemTyped, NEW req_valid, NEW r, NEW resp_ready,
           Cycle(req_valid, r, resp_ready)
    PROVE  mem_req_pending' => mem_req'.write \in BOOLEAN
  <1>1. CASE RequestWriteback
    <2>1. mem_req'.write = TRUE
      BY <1>1 DEF RequestWriteback
    <2> QED
      BY <2>1
  <1>2. CASE RequestFill
    <2>1. mem_req'.write = FALSE
      BY <1>2 DEF RequestFill
    <2> QED
      BY <2>1
  <1>3. CASE ~(RequestWriteback \/ RequestFill)
    BY <1>3 DEF Cycle, ClockEdge, AcceptRequest, FillLine, ReadHit, WriteHit, Wait,
                SystemTyped
  <1> QED
    BY <1>1, <1>2, <1>3

LEMMA TypesKept ==
    ASSUME RtlInv, SystemTyped, AgentCycle,
           mem_req_pending' => mem_req'.write \in BOOLEAN,
           cpu' \in {"idle", "driving", "sampling", "resetting"},
           cpu' = "driving" => cpu_req' \in CpuRequests,
           waited' \in Nat, view' \in [LineAddresses -> LineData]
    PROVE  SystemTyped'
  BY AgentKeepsTypes DEF SystemTyped

LEMMA MergedTyped ==
    ASSUME NEW data \in LineData, NEW r \in CpuRequests
    PROVE  MergedInto(data, r) \in LineData
  BY CpuRequestsAssumption DEF MergedInto, LineData, Word, IsCpuRequest

LEMMA ViewTyped ==
    ASSUME SystemTyped, NEW r \in CpuRequests
    PROVE  /\ Merged(r) \in [LineAddresses -> LineData]
           /\ \A l \in LineAddresses :
                 Merged(r)[l] = IF l = <<r.tag, r.index>> THEN MergedInto(view[l], r)
                                ELSE view[l]
  <1> DEFINE l0 == <<r.tag, r.index>>
             new == MergedInto(view[l0], r)
  <1>1. l0 \in LineAddresses
    BY CpuRequestsAssumption DEF LineAddresses, IsCpuRequest
  <1>2. view \in [LineAddresses -> LineData] /\ new \in LineData
    BY <1>1, MergedTyped DEF SystemTyped
  <1>3. Merged(r) = [view EXCEPT ![l0] = new]
    BY <1>1, <1>2 DEF Merged, MergedInto
  <1> HIDE DEF new
  <1>4. /\ [view EXCEPT ![l0] = new] \in [LineAddresses -> LineData]
        /\ \A l \in LineAddresses :
              [view EXCEPT ![l0] = new][l] = IF l = l0 THEN new ELSE view[l]
    BY <1>2
  <1> QED
    BY <1>3, <1>4 DEF new

\* Where the CPU side may start something: nothing is in the cache, or a read is
\* stuck behind its writeback.
LEMMA FreeOrStuck ==
    ASSUME ControlInv, ResponseTimeout > 3, CpuFree \/ cpu = "driving"
    PROVE  /\ ~resp_valid_r
           /\ req_pending => mem_req_pending /\ mem_req.write
           /\ cpu # "sampling" \/ waited > 3
           /\ cpu = "driving" => req_pending
           /\ ~req_pending => cpu = "idle"
           /\ ~(agent = "taken" /\ ~taken.write)
           /\ cpu # "resetting"
  <1>1. CASE cpu = "idle" \/ cpu = "driving"
    BY <1>1 DEF ControlInv, Phases, Punctual, TakenIsOut
  <1>2. CASE TimedOut
    <2>1. req_pending /\ ~resp_valid_r /\ waited > 3 /\ waited # 0
      BY <1>2, SystemConstantsAssumption DEF TimedOut, ControlInv, Phases
    <2>2. mem_req_pending
      BY <1>2, <2>1 DEF TimedOut, ControlInv, Punctual
    <2>3. mem_req.write
      BY <1>2, <2>1, <2>2 DEF TimedOut, ControlInv, Punctual, SystemTyped
    <2> QED
      BY <1>2, <2>1, <2>2, <2>3 DEF TimedOut, ControlInv, TakenIsOut
  <1> QED
    BY <1>1, <1>2 DEF CpuFree

\* A cycle that ends free or driving, from free or driving.
LEMMA IdleCycleKeepsControl ==
    ASSUME ControlInv, ResponseTimeout > 3, CpuFree \/ cpu = "driving",
           Cycle(FALSE, None, FALSE),
           cpu' = "idle", waited' = 0, view' = view
    PROVE  ControlInv'
  <1>1. /\ ~resp_valid_r /\ (req_pending => mem_req_pending /\ mem_req.write)
        /\ cpu # "sampling" \/ waited > 3
        /\ ~(agent = "taken" /\ ~taken.write)
    BY FreeOrStuck
  <1>2. RtlInv' /\ SystemTyped'
    BY CycleKeepsRtl, MemRequestStaysTyped, TypesKept DEF Cycle, ControlInv, SystemTyped
  <1>3. CASE req_pending
    <2>1. /\ UNCHANGED <<lines, lru_way, req_pending, req, mem_req_pending, mem_req>>
          /\ ~resp_valid_r' /\ ~Serving
      BY <1>1, <1>3, StuckEdge
    <2>2. agent' # "driving" /\ (agent' = "taken" => taken' = mem_req)
      BY <2>1, AgentMoves DEF Cycle, ControlInv
    <2> QED
      BY <1>1, <1>2, <1>3, <2>1, <2>2 DEF ControlInv, Phases, Punctual, TakenIsOut
  <1>4. CASE ~req_pending
    <2>1. /\ ~mem_req_pending /\ ~mem_req_pending' /\ ~resp_valid_r' /\ ~req_pending'
      BY <1>1, <1>4, QuietEdge
    <2>2. agent' # "taken"
      BY <2>1, AgentMoves DEF Cycle, ControlInv
    <2> QED
      BY <1>2, <2>1, <2>2 DEF ControlInv, Phases, Punctual, TakenIsOut
  <1> QED
    BY <1>3, <1>4

LEMMA DriveKeepsControl ==
    ASSUME ControlInv, ResponseTimeout > 3, CpuFree \/ cpu = "driving",
           NEW r \in CpuRequests, Drive(r)
    PROVE  ControlInv'
  <1>1. /\ ~resp_valid_r /\ (req_pending => mem_req_pending /\ mem_req.write)
        /\ cpu # "sampling" \/ waited > 3
        /\ ~(agent = "taken" /\ ~taken.write)
    BY FreeOrStuck
  <1>2. RtlInv' /\ SystemTyped'
    BY CycleKeepsRtl, MemRequestStaysTyped, TypesKept, ViewTyped
       DEF Drive, Cycle, ControlInv, SystemTyped
  <1>3. CASE req_pending
    <2>1. /\ UNCHANGED <<lines, lru_way, req_pending, req, mem_req_pending, mem_req>>
          /\ ~resp_valid_r' /\ ~Serving
      BY <1>1, <1>3, StuckEdge DEF Drive
    <2>2. agent' # "driving" /\ (agent' = "taken" => taken' = mem_req)
      BY <2>1, AgentMoves DEF Drive, Cycle, ControlInv
    <2>3. cpu' = "driving"
      BY <1>3 DEF Drive, Ready
    <2> QED
      BY <1>1, <1>2, <1>3, <2>1, <2>2, <2>3 DEF ControlInv, Phases, Punctual, TakenIsOut
  <1>4. CASE ~req_pending
    <2>1. /\ ~mem_req_pending /\ ~mem_req_pending' /\ ~resp_valid_r' /\ req_pending' /\ Ready
      BY <1>1, <1>4, QuietEdge DEF Drive
    <2>2. agent' # "taken"
      BY <2>1, AgentMoves DEF Drive, Cycle, ControlInv
    <2>3. cpu' = "sampling" /\ waited' = 0
      BY <2>1 DEF Drive
    <2> QED
      BY <1>2, <2>1, <2>2, <2>3 DEF ControlInv, Phases, Punctual, TakenIsOut
  <1> QED
    BY <1>3, <1>4

LEMMA AwaitKeepsControl ==
    ASSUME ControlInv, AwaitResponse
    PROVE  ControlInv'
  <1>1. /\ cpu = "sampling" /\ cpu' = "sampling" /\ ~resp_valid_r /\ req_pending
        /\ waited \in Nat /\ waited' = waited + 1 /\ view' = view
        /\ AgentCycle /\ Cycle(FALSE, None, FALSE)
    BY DEF AwaitResponse, ControlInv, Phases, SystemTyped, Cycle
  <1>2. RtlInv'
    BY <1>1, CycleKeepsRtl DEF ControlInv
  <1>3. SystemTyped'
    <2>1. mem_req_pending' => mem_req'.write \in BOOLEAN
      BY <1>1, MemRequestStaysTyped DEF ControlInv
    <2>2. waited' \in Nat /\ view' \in [LineAddresses -> LineData]
      BY <1>1 DEF ControlInv, SystemTyped
    <2> QED
      BY <1>1, <2>1, <2>2, TypesKept DEF ControlInv
  <1>4. CASE FillEdge \/ HitEdge
    <2>1. /\ resp_valid_r' /\ ~req_pending' /\ ~mem_req_pending'
          /\ mem_req_pending => Serving
      BY <1>4 DEF FillEdge, HitEdge, FillLine, ReadHit, WriteHit, Respond
    <2>2. agent' # "taken"
      BY <1>1, <2>1, AgentMoves DEF ControlInv
    <2> QED
      BY <1>1, <1>2, <1>3, <2>1, <2>2 DEF ControlInv, Phases, Punctual, TakenIsOut
  <1>5. CASE RequestEdge
    <2>1. ~resp_valid_r' /\ req_pending' /\ mem_req_pending' /\ ~mem_req_pending
      <3>1. CASE RequestWriteback
        BY <1>1, <1>5, <3>1 DEF RequestEdge, RequestWriteback
      <3>2. CASE RequestFill
        BY <1>1, <1>5, <3>2 DEF RequestEdge, RequestFill
      <3> QED
        BY <1>5, <3>1, <3>2 DEF RequestEdge
    <2>2. waited' = 1 /\ agent' # "taken"
      BY <1>1, <2>1, AgentMoves DEF ControlInv, Punctual
    <2> QED
      BY <1>1, <1>2, <1>3, <2>1, <2>2 DEF ControlInv, Phases, Punctual, TakenIsOut
  <1>6. CASE WaitEdge
    <2>1. /\ UNCHANGED <<req_pending, mem_req_pending, mem_req>> /\ mem_req_pending
          /\ ~resp_valid_r' /\ ~Serving
      BY <1>1, <1>6 DEF WaitEdge, Wait, ClearResponse
    <2>2. /\ agent' # "driving" /\ (agent' = "taken" => taken' = mem_req)
          /\ agent' = "monitoring" => agent \in {"taken", "driving"}
      BY <1>1, <2>1, AgentMoves DEF ControlInv
    <2>3. agent = "taken" => mem_req.write
      BY <1>1, <2>1 DEF Serving, ControlInv, TakenIsOut
    <2> QED
      BY <1>1, <1>2, <1>3, <2>1, <2>2, <2>3 DEF ControlInv, Phases, Punctual, TakenIsOut, SystemTyped
  <1> QED
    BY <1>1, <1>4, <1>5, <1>6, AwaitingEdge

LEMMA TakeKeepsControl ==
    ASSUME ControlInv, TakeResponse
    PROVE  ControlInv'
  <1>1. /\ cpu' = "idle" /\ waited' = 0 /\ view' = view /\ resp_valid_r /\ ~req_pending
        /\ AgentCycle /\ Cycle(FALSE, None, TRUE)
    BY DEF TakeResponse, ControlInv, Phases, Cycle
  <1>2. RtlInv' /\ SystemTyped'
    BY <1>1, CycleKeepsRtl, MemRequestStaysTyped, TypesKept DEF ControlInv, SystemTyped
  <1>3. ~mem_req_pending /\ ~mem_req_pending' /\ ~resp_valid_r' /\ ~req_pending'
    BY <1>1, QuietEdge
  <1>4. agent' # "taken"
    BY <1>1, <1>3, AgentMoves DEF ControlInv
  <1> QED
    BY <1>1, <1>2, <1>3, <1>4 DEF ControlInv, Phases, Punctual, TakenIsOut

LEMMA ResetClears ==
    ASSUME RtlInv, ResetEdge
    PROVE  /\ ~resp_valid_r' /\ ~req_pending' /\ ~mem_req_pending'
           /\ \A s \in SetIds, w \in WayIds : ~lines'[s][w].valid
  <1> DEFINE cleared(s, w) == [lines[s][w] EXCEPT !.valid = FALSE, !.dirty = FALSE]
  <1>1. \A s \in SetIds, w \in WayIds : lines[s][w] \in LineRegister
    BY DEF RtlInv, RegistersTyped
  <1>2. \A s \in SetIds, w \in WayIds : cleared(s, w).valid = FALSE
    BY <1>1 DEF LineRegister
  <1>3. \A s \in SetIds, w \in WayIds : ~lines'[s][w].valid
    <2>1. lines' = [s \in SetIds |-> [w \in WayIds |-> cleared(s, w)]]
      BY DEF ResetEdge
    <2> HIDE DEF cleared
    <2> QED
      BY <1>2, <2>1
  <1> QED
    BY <1>3 DEF ResetEdge

LEMMA StartResetKeepsControl ==
    ASSUME ControlInv, ResponseTimeout > 3, StartReset
    PROVE  ControlInv'
  <1>1. /\ cpu' = "resetting" /\ waited' = ResetCycles + 1 /\ view' = view
        /\ AgentCycle /\ ResetEdge /\ CpuFree
        /\ waited' \in Nat /\ waited' \in 1 .. ResetCycles + 1
    BY SystemConstantsAssumption DEF StartReset
  <1>2. /\ req_pending => mem_req_pending /\ mem_req.write
        /\ ~(agent = "taken" /\ ~taken.write)
    BY <1>1, FreeOrStuck
  <1>3. /\ RtlInv' /\ ~resp_valid_r' /\ ~req_pending' /\ ~mem_req_pending'
        /\ \A s \in SetIds, w \in WayIds : ~lines'[s][w].valid
    BY <1>1, ResetKeepsInv, ResetClears DEF ControlInv
  <1>4. SystemTyped'
    BY <1>1, <1>3, TypesKept DEF ControlInv, SystemTyped
  <1>5. agent' = "taken" => taken'.write
    BY <1>1, <1>2, AgentMoves DEF ControlInv, RtlInv, MemRequestIsMiss
  <1> QED
    BY <1>1, <1>3, <1>4, <1>5 DEF ControlInv, Phases, Punctual, TakenIsOut

LEMMA KeepResettingKeepsControl ==
    ASSUME ControlInv, KeepResetting
    PROVE  ControlInv'
  <1>1. /\ cpu = "resetting" /\ ~resp_valid_r /\ ~req_pending /\ ~mem_req_pending
        /\ \A s \in SetIds, w \in WayIds : ~lines[s][w].valid
        /\ waited \in 1 .. ResetCycles + 1 /\ ResetCycles \in Nat
        /\ waited' = waited - 1 /\ AgentCycle
    BY SystemConstantsAssumption DEF KeepResetting, ControlInv, Phases, Cycle
  <1>2. agent' # "taken"
    BY <1>1, AgentMoves DEF ControlInv
  <1>3. /\ RtlInv' /\ ~resp_valid_r' /\ ~req_pending' /\ ~mem_req_pending'
        /\ \A s \in SetIds, w \in WayIds : ~lines'[s][w].valid
    <2>1. CASE waited > 2
      BY <2>1, ResetKeepsInv, ResetClears DEF KeepResetting, ControlInv
    <2>2. CASE ~(waited > 2)
      <3>1. Cycle(FALSE, None, FALSE)
        BY <2>2 DEF KeepResetting
      <3> QED
        BY <1>1, <3>1, QuietEdge, CycleKeepsRtl DEF ControlInv
    <2> QED
      BY <2>1, <2>2
  <1>4. SystemTyped'
    <2>1. memory' \in [LineAddresses -> LineData]
      BY <1>1, AgentKeepsTypes DEF ControlInv
    <2> QED
      BY <1>1, <1>3, <2>1, TypesKept DEF ControlInv, SystemTyped, KeepResetting
  <1> QED
    BY <1>1, <1>2, <1>3, <1>4 DEF ControlInv, Phases, Punctual, TakenIsOut, KeepResetting

LEMMA SystemStarts ==
    ASSUME SystemInit
    PROVE  ControlInv
  <1>1. RtlInv
    BY RtlInitHolds DEF SystemInit
  <1>2. memory \in [LineAddresses -> LineData]
    BY SystemConstantsAssumption DEF SystemInit
  <1> QED
    BY <1>1, <1>2
       DEF SystemInit, RtlInit, ControlInv, SystemTyped, Phases, Punctual, TakenIsOut

LEMMA StutterKeepsControl ==
    ASSUME ControlInv, UNCHANGED systemVars
    PROVE  ControlInv'
  <1>1. UNCHANGED rtlVars /\ UNCHANGED cpuVars /\ UNCHANGED agentVars /\ UNCHANGED view
    BY DEF systemVars
  <1>2. RtlInv'
    BY <1>1, StutterKeepsInv DEF ControlInv
  <1>3. SystemTyped'
    BY <1>1 DEF rtlVars, cpuVars, agentVars, ControlInv, SystemTyped
  <1> QED
    BY <1>1, <1>2, <1>3
       DEF rtlVars, cpuVars, agentVars, ControlInv, Phases, Punctual, TakenIsOut

LEMMA NextKeepsControl ==
    ASSUME ControlInv, ResponseTimeout > 3, [SystemNext]_systemVars
    PROVE  ControlInv'
  <1>1. ASSUME NEW r \in CpuRequests, StartRequest(r) PROVE ControlInv'
    BY <1>1, DriveKeepsControl DEF StartRequest
  <1>2. CASE KeepDriving
    <2>1. cpu = "driving" /\ cpu_req \in CpuRequests /\ Drive(cpu_req)
      BY <1>2 DEF KeepDriving, ControlInv, SystemTyped
    <2> QED
      BY <2>1, DriveKeepsControl
  <1>3. CASE AwaitResponse
    BY <1>3, AwaitKeepsControl
  <1>4. CASE TakeResponse
    BY <1>4, TakeKeepsControl
  <1>5. CASE StayIdle
    BY <1>5, IdleCycleKeepsControl DEF StayIdle
  <1>6. CASE StartReset
    BY <1>6, StartResetKeepsControl
  <1>7. CASE KeepResetting
    BY <1>7, KeepResettingKeepsControl
  <1>8. CASE UNCHANGED systemVars
    BY <1>8, StutterKeepsControl
  <1> QED
    BY <1>1, <1>2, <1>3, <1>4, <1>5, <1>6, <1>7, <1>8 DEF SystemNext

(***************************************************************************)
(* The control of the whole system: what is in the cache, what is on the   *)
(* memory port and what the memory agent is working on, in each phase of   *)
(* the CPU side, for every geometry, every stream and every latency.  The  *)
(* timeout is longer than the three cycles that a fill takes at most: one  *)
(* to raise its request, and two until the loop of the agent meets it.     *)
(***************************************************************************)
THEOREM ControlIsInvariant ==
    ASSUME ResponseTimeout > 3
    PROVE  SystemSpec => []ControlInv
  <1>1. SystemInit => ControlInv
    BY SystemStarts
  <1>2. ControlInv /\ [SystemNext]_systemVars => ControlInv'
    BY NextKeepsControl
  <1> QED
    BY <1>1, <1>2, PTL DEF SystemSpec

(***************************************************************************)
(* While sample_cpu_response waits (toffee_adapter.py) there is either the *)
(* request or its response in the cache; else neither, but for a request   *)
(* whose writeback is out.                                                 *)
(***************************************************************************)
THEOREM AnswersAreOne ==
    ASSUME ResponseTimeout > 3
    PROVE  SystemSpec => []OneAnswerPerRequest
  <1>1. ControlInv => OneAnswerPerRequest
    BY DEF ControlInv, Phases, OneAnswerPerRequest
  <1> QED
    BY <1>1, ControlIsInvariant, PTL

(***************************************************************************)
(* TimeoutError is raised only behind the writeback of a dirty victim: a   *)
(* fill is answered in time whatever the latency of the memory agent is.   *)
(***************************************************************************)
THEOREM TimeoutsAreWritebacks ==
    ASSUME ResponseTimeout > 3
    PROVE  SystemSpec => []TimeoutMeansWriteback
  <1>1. ControlInv => TimeoutMeansWriteback
    <2> SUFFICES ASSUME ControlInv, TimedOut PROVE mem_req_pending /\ mem_req.write
      BY DEF TimeoutMeansWriteback
    <2>1. req_pending
      BY DEF TimedOut, ControlInv, Phases
    <2> QED
      BY <2>1, FreeOrStuck DEF CpuFree
  <1> QED
    BY <1>1, ControlIsInvariant, PTL

(***************************************************************************)
(* The tags stay unique, and a memory request fits its victim, with the    *)
(* agent of the repository on the other side of the memory port.           *)
(***************************************************************************)
THEOREM SystemKeepsCache ==
    ASSUME ResponseTimeout > 3
    PROVE  SystemSpec => [](TagInOneWay /\ MemRequestIsMiss /\ MemRequestFitsVictim)
  <1>1. ControlInv => TagInOneWay /\ MemRequestIsMiss /\ MemRequestFitsVictim
    BY DEF ControlInv, RtlInv
  <1> QED
    BY <1>1, ControlIsInvariant, PTL
-----------------------------------------------------------------------------
(***************************************************************************)
(* The memory port: no fill response outlives its request, when the latency *)
(* is less than the four cycles between two requests.                      *)
(***************************************************************************)
LEMMA HoldKept ==
    ASSUME ControlInv, HoldInv, ResponseTimeout > 3, Latency < 4, [SystemNext]_systemVars
    PROVE  HoldInv'
  <1> SUFFICES ASSUME agent' = "driving"
               PROVE  /\ hold' <= 3
                      /\ cpu' \in {"idle", "resetting"} => hold' <= 2
                      /\ cpu' = "sampling" /\ ~resp_valid_r' /\ ~mem_req_pending' => hold' <= 1
                      /\ mem_req_pending' => hold' = 0
    BY DEF HoldInv
  <1>1. CASE UNCHANGED systemVars
    BY <1>1 DEF systemVars, rtlVars, cpuVars, agentVars, HoldInv
  <1> SUFFICES ASSUME SystemNext PROVE HoldInv'
    BY <1>1 DEF HoldInv
  <1>2. AgentCycle
    BY DEF SystemNext, StartRequest, KeepDriving, Drive, AwaitResponse, TakeResponse, StayIdle,
           StartReset, KeepResetting, Cycle
  <1>3. /\ Serving
        /\ agent = "taken" => hold' = Latency
        /\ agent = "driving" => hold > 0 /\ hold' = hold - 1
    BY <1>2, AgentMoves DEF ControlInv
  <1>4. hold \in Nat /\ hold' \in Nat /\ Latency \in Nat
    BY <1>2, AgentKeepsTypes, SystemConstantsAssumption DEF ControlInv, SystemTyped
  <1>5. CASE agent = "taken"
    <2>1. mem_req_pending /\ ~mem_req.write /\ cpu = "sampling" /\ waited <= 3
      BY <1>3, <1>5 DEF Serving, ControlInv, TakenIsOut, Punctual
    <2>2. ~CpuFree /\ req_pending /\ ~resp_valid_r
      BY <2>1, SystemConstantsAssumption
         DEF CpuFree, TimedOut, ControlInv, RtlInv, MemRequestIsMiss, SystemTyped
    <2>3. AwaitResponse
      BY <2>1, <2>2
         DEF SystemNext, StartRequest, KeepDriving, TakeResponse, StayIdle, StartReset,
             KeepResetting
    <2>4. FillEdge
      BY <1>3, <2>1, <2>2, <2>3, AwaitingEdge DEF AwaitResponse, HitEdge, RequestEdge, WaitEdge
    <2> QED
      BY <1>3, <1>4, <1>5, <2>1, <2>3, <2>4
         DEF AwaitResponse, FillEdge, FillLine, Respond, HoldInv
  <1>6. CASE agent = "driving"
    <2>1. ~mem_req_pending
      BY <1>3, <1>6 DEF HoldInv
    <2>2. \/ /\ cpu = "idle" /\ ~req_pending /\ ~resp_valid_r /\ hold <= 2
          \/ cpu = "resetting" /\ hold <= 2
          \/ cpu = "sampling" /\ resp_valid_r /\ ~req_pending
          \/ cpu = "sampling" /\ ~resp_valid_r /\ req_pending /\ hold <= 1
      BY <1>6, <2>1 DEF ControlInv, Phases, SystemTyped, HoldInv
    <2>3. hold' = hold - 1 /\ (hold <= 1 => hold' = 0) /\ (hold <= 2 => hold' <= 1)
          /\ (hold <= 3 => hold' <= 2)
      BY <1>3, <1>4, <1>6
    <2>4. CASE hold <= 1
      BY <2>3, <2>4 DEF HoldInv
    <2>5. CASE ~req_pending
      <3>1. ResetEdge \/ \E v, r, q : Cycle(v, r, q)
        BY DEF SystemNext, StartRequest, KeepDriving, Drive, AwaitResponse, TakeResponse,
               StayIdle, StartReset, KeepResetting
      <3>2. ~mem_req_pending'
        BY <2>1, <2>5, <3>1, QuietEdge DEF ResetEdge
      <3>3. CASE hold <= 2
        BY <2>3, <3>2, <3>3, <1>4 DEF HoldInv
      <3>4. CASE cpu = "sampling" /\ resp_valid_r
        <4>1. TakeResponse
          BY <3>4 DEF SystemNext, StartRequest, KeepDriving, AwaitResponse, StayIdle,
                      StartReset, KeepResetting, CpuFree, TimedOut
        <4>2. hold <= 3 /\ cpu' = "idle"
          BY <1>6, <4>1 DEF TakeResponse, HoldInv
        <4> QED
          BY <1>4, <2>3, <3>2, <4>2 DEF HoldInv
      <3> QED
        BY <2>2, <2>5, <3>3, <3>4
    <2> QED
      BY <2>2, <2>4, <2>5 DEF ControlInv, Phases
  <1> QED
    BY <1>3, <1>5, <1>6 DEF Serving

\* handle_writeback is the only thing that writes memory, and it writes what it was given.
LEMMA MemoryMoves ==
    ASSUME AgentCycle
    PROVE  \/ memory' = memory
           \/ /\ ~Serving /\ agent = "taken" /\ taken.write
              /\ memory' = [memory EXCEPT ![taken.addr] = taken.wdata]
  BY DEF AgentCycle, TakeMemRequest, LeaveMemRequest, StartFill, HoldFill, StoreTaken

\* Outside reset it is the data of the dirty victim, at the victim's address.
LEMMA StoreIsVictim ==
    ASSUME ControlInv, cpu # "resetting", agent = "taken", taken.write
    PROVE  /\ mem_req_pending /\ taken = mem_req
           /\ taken.addr = <<Victim.tag, req.index>> /\ taken.wdata = Victim.data
           /\ Victim.valid /\ Victim.dirty
           /\ req.tag \in Tags /\ req.index \in SetIds /\ lru_way[req.index] \in WayIds
  <1>1. mem_req_pending /\ taken = mem_req
    BY DEF ControlInv, TakenIsOut
  <1>2. req_pending
    BY <1>1 DEF ControlInv, RtlInv, MemRequestIsMiss
  <1> QED
    BY <1>1, <1>2, ReqFields
       DEF ControlInv, RtlInv, MemRequestFitsVictim, VictimIsDirty

\* A fill edge installs the line asked for, as memory holds it.
LEMMA FillIsMemory ==
    ASSUME ControlInv, HoldInv, Cycle(FALSE, None, FALSE), FillEdge
    PROVE  /\ memory' = memory
           /\ req.tag \in Tags /\ req.index \in SetIds /\ lru_way[req.index] \in WayIds
           /\ <<req.tag, req.index>> \in LineAddresses
           /\ MemRespData = memory[<<req.tag, req.index>>] /\ MemRespData \in LineData
           /\ ~VictimIsDirty /\ ~Hit /\ ~mem_req.write
           /\ \A s \in SetIds, w \in WayIds :
                 lines'[s][w] = IF s = req.index /\ w = lru_way[req.index]
                                THEN [valid |-> TRUE, dirty |-> FALSE, tag |-> req.tag,
                                      data |-> MemRespData]
                                ELSE lines[s][w]
  <1>1. mem_req_pending /\ Serving /\ FillLine(MemRespData) /\ AgentCycle
    BY DEF FillEdge, Cycle
  <1>2. agent = "taken" /\ ~taken.write
    BY <1>1 DEF Serving, HoldInv
  <1>3. taken = mem_req /\ req_pending /\ ~Hit
    BY <1>1, <1>2 DEF ControlInv, TakenIsOut, RtlInv, MemRequestIsMiss
  <1>4. req.tag \in Tags /\ req.index \in SetIds /\ lru_way[req.index] \in WayIds
    BY <1>3, ReqFields DEF ControlInv, RtlInv
  <1>5. ~VictimIsDirty /\ mem_req.addr = <<req.tag, req.index>>
    BY <1>1, <1>2, <1>3 DEF ControlInv, RtlInv, MemRequestFitsVictim
  <1>6. MemRespData = memory[<<req.tag, req.index>>]
    BY <1>2, <1>3, <1>5 DEF MemRespData
  <1>7. MemRespData \in LineData
    BY <1>1, ServedLine DEF ControlInv
  <1>8. memory' = memory
    BY <1>1, <1>2, MemoryMoves
  <1> QED
    BY <1>1, <1>2, <1>3, <1>4, <1>5, <1>6, <1>7, <1>8, FillEffect
       DEF ControlInv, LineAddresses

\* What a system step can do to the lines.
LEMMA LinesMove ==
    ASSUME ControlInv, ResponseTimeout > 3, SystemNext
    PROVE  \/ lines' = lines /\ cpu # "resetting"
           \/ /\ AwaitResponse /\ Cycle(FALSE, None, FALSE)
              /\ FillEdge \/ (WriteHit /\ HitEdge)
           \/ \A s \in SetIds, w \in WayIds : ~lines'[s][w].valid
  <1>1. ASSUME NEW v, NEW r, NEW q, Cycle(v, r, q), CpuFree \/ cpu = "driving"
        PROVE  lines' = lines /\ cpu # "resetting"
    <2>1. /\ req_pending => mem_req_pending /\ mem_req.write
          /\ cpu # "sampling" \/ waited > 3
          /\ cpu # "resetting"
      BY <1>1, FreeOrStuck
    <2>2. CASE req_pending
      BY <1>1, <2>1, <2>2, StuckEdge
    <2>3. CASE ~req_pending
      BY <1>1, <2>1, <2>3, QuietEdge
    <2> QED
      BY <2>2, <2>3
  <1>2. CASE \E r \in CpuRequests : StartRequest(r)
    BY <1>1, <1>2 DEF StartRequest, Drive
  <1>3. CASE KeepDriving
    BY <1>1, <1>3 DEF KeepDriving, Drive
  <1>4. CASE StayIdle
    BY <1>1, <1>4 DEF StayIdle
  <1>5. CASE TakeResponse
    <2>1. ~req_pending /\ Cycle(FALSE, None, TRUE) /\ cpu # "resetting"
      BY <1>5 DEF TakeResponse, ControlInv, Phases
    <2> QED
      BY <2>1, QuietEdge
  <1>6. CASE AwaitResponse
    <2>1. /\ Cycle(FALSE, None, FALSE) /\ req_pending /\ ~resp_valid_r /\ cpu # "resetting"
      BY <1>6 DEF AwaitResponse, ControlInv, Phases
    <2>2. CASE RequestEdge
      <3>1. CASE RequestWriteback
        BY <2>1, <3>1 DEF RequestWriteback
      <3>2. CASE RequestFill
        BY <2>1, <3>2 DEF RequestFill
      <3> QED
        BY <2>2, <3>1, <3>2 DEF RequestEdge
    <2>3. CASE WaitEdge
      BY <2>1, <2>3 DEF WaitEdge, Wait
    <2>4. CASE HitEdge
      BY <1>6, <2>1, <2>4 DEF HitEdge, ReadHit
    <2> QED
      BY <1>6, <2>1, <2>2, <2>3, <2>4, AwaitingEdge
  <1>7. CASE StartReset
    BY <1>7, ResetClears DEF StartReset, ControlInv
  <1>8. CASE KeepResetting
    <2>1. CASE waited > 2
      BY <1>8, <2>1, ResetClears DEF KeepResetting, ControlInv
    <2>2. CASE ~(waited > 2)
      <3>1. Cycle(FALSE, None, FALSE) /\ ~req_pending
        BY <1>8, <2>2 DEF KeepResetting, ControlInv, Phases
      <3>2. lines' = lines
        BY <3>1, QuietEdge
      <3> QED
        BY <1>8, <3>2 DEF KeepResetting, ControlInv, Phases
    <2> QED
      BY <2>1, <2>2
  <1> QED
    BY <1>2, <1>3, <1>4, <1>5, <1>6, <1>7, <1>8 DEF SystemNext

LEMMA NextCycles == SystemNext => AgentCycle
  BY DEF SystemNext, StartRequest, KeepDriving, Drive, AwaitResponse, TakeResponse, StayIdle,
         StartReset, KeepResetting, Cycle

\* A line stays clean only if neither it nor its place in memory is written.
LEMMA CleanKept ==
    ASSUME ControlInv, HoldInv, CleanLineIsMemory, ResponseTimeout > 3,
           [SystemNext]_systemVars
    PROVE  CleanLineIsMemory'
  <1>1. CASE UNCHANGED systemVars
    BY <1>1 DEF systemVars, rtlVars, agentVars, CleanLineIsMemory
  <1> SUFFICES ASSUME SystemNext,
                      NEW s \in SetIds, NEW w \in WayIds,
                      lines'[s][w].valid, ~lines'[s][w].dirty
               PROVE  lines'[s][w].data = memory'[<<lines'[s][w].tag, s>>]
    BY <1>1 DEF CleanLineIsMemory
  <1>2. AgentCycle
    BY NextCycles
  <1>3. CASE lines' = lines /\ cpu # "resetting"
    <2>1. lines[s][w].data = memory[<<lines[s][w].tag, s>>]
      BY <1>3 DEF CleanLineIsMemory
    <2>2. CASE memory' = memory
      BY <1>3, <2>1, <2>2
    <2>3. CASE /\ agent = "taken" /\ taken.write
               /\ memory' = [memory EXCEPT ![taken.addr] = taken.wdata]
      <3>1. /\ taken.addr = <<Victim.tag, req.index>> /\ Victim.valid /\ Victim.dirty
            /\ req.index \in SetIds /\ lru_way[req.index] \in WayIds
        BY <1>3, <2>3, StoreIsVictim
      <3>2. <<lines[s][w].tag, s>> # taken.addr
        BY <1>3, <3>1 DEF ControlInv, RtlInv, TagInOneWay, Victim
      <3>3. memory'[<<lines[s][w].tag, s>>] = memory[<<lines[s][w].tag, s>>]
        <4> DEFINE l == <<lines[s][w].tag, s>>
        <4>1. l \in LineAddresses /\ memory \in [LineAddresses -> LineData]
          BY <1>3 DEF ControlInv, RtlInv, RegistersTyped, SystemTyped, LineAddresses
        <4> HIDE DEF l
        <4>2. l # taken.addr => memory'[l] = memory[l]
          BY <2>3, <4>1
        <4> QED
          BY <3>2, <4>2 DEF l
      <3> QED
        BY <1>3, <2>1, <3>3
    <2> QED
      BY <1>2, <2>2, <2>3, MemoryMoves
  <1>4. CASE AwaitResponse /\ Cycle(FALSE, None, FALSE) /\ FillEdge
    BY <1>4, FillIsMemory DEF CleanLineIsMemory
  <1>5. CASE AwaitResponse /\ Cycle(FALSE, None, FALSE) /\ WriteHit /\ HitEdge
    <2>1. memory' = memory
      BY <1>2, <1>5, MemoryMoves, StoreIsVictim DEF AwaitResponse, HitEdge
    <2>2. ~(s = req.index /\ w = HitWay)
      <3>1. req_pending /\ Hit
        BY <1>5 DEF WriteHit, Processing
      <3>2. req.index \in SetIds /\ HitWay \in WayIds
        BY <3>1, ReqFields, HitWayMatches DEF ControlInv, RtlInv
      <3>3. lines[req.index][HitWay] \in LineRegister
        BY <3>2 DEF ControlInv, RtlInv, RegistersTyped
      <3> DEFINE old == lines[req.index][HitWay]
                 bytes == MergedInto(old.data, req)
      <3>4. \A d : [old EXCEPT !.data = d, !.dirty = TRUE].dirty = TRUE
        <4> HIDE DEF old
        <4> QED
          BY <3>3 DEF LineRegister, old
      <3>5. lines'[req.index][HitWay] = [old EXCEPT !.data = bytes, !.dirty = TRUE]
        BY <1>5, <3>2, WriteHitEffect DEF ControlInv, MergedInto
      <3> HIDE DEF old, bytes
      <3>6. lines'[req.index][HitWay].dirty = TRUE
        BY <3>4, <3>5
      <3> QED
        BY <3>6
    <2>3. lines'[s][w] = lines[s][w]
      BY <1>5, <2>2, WriteHitEffect DEF ControlInv
    <2> QED
      BY <2>1, <2>3 DEF CleanLineIsMemory
  <1> QED
    BY <1>3, <1>4, <1>5, LinesMove

LEMMA MemoryStarts ==
    ASSUME SystemInit
    PROVE  HoldInv /\ CleanLineIsMemory
  BY DEF SystemInit, RtlInit, HoldInv, CleanLineIsMemory

(***************************************************************************)
(* A fill response is gone from the bus before the next request is out.    *)
(***************************************************************************)
THEOREM ResponsesEndInTime ==
    ASSUME ResponseTimeout > 3, Latency < 4
    PROVE  SystemSpec => [](ControlInv /\ HoldInv)
  <1>1. SystemInit => ControlInv /\ HoldInv
    BY SystemStarts, MemoryStarts
  <1>2. ControlInv /\ HoldInv /\ [SystemNext]_systemVars => (ControlInv /\ HoldInv)'
    BY NextKeepsControl, HoldKept
  <1> QED
    BY <1>1, <1>2, PTL DEF SystemSpec

(***************************************************************************)
(* A line that is not dirty holds what memory holds, for every latency     *)
(* under the four cycles between two memory requests (memory_agent.py,     *)
(* handle_fill; the run system_latency shows what happens above it).        *)
(***************************************************************************)
THEOREM CleanLinesAreMemory ==
    ASSUME ResponseTimeout > 3, Latency < 4
    PROVE  SystemSpec => []CleanLineIsMemory
  <1>1. SystemInit => CleanLineIsMemory
    BY MemoryStarts
  <1>2. ControlInv /\ HoldInv /\ CleanLineIsMemory /\ [SystemNext]_systemVars
            => CleanLineIsMemory'
    BY CleanKept
  <1> QED
    BY <1>1, <1>2, ResponsesEndInTime, PTL DEF SystemSpec
-----------------------------------------------------------------------------
(***************************************************************************)
(* The program's view: what CurrentLine finds, for any lines and memory.   *)
(***************************************************************************)
LineIn(held, mem, l) ==
    LET ways == {w \in WayIds : held[l[2]][w].valid /\ held[l[2]][w].tag = l[1]}
    IN  IF ways = {} THEN mem[l] ELSE held[l[2]][CHOOSE w \in ways : TRUE].data

LEMMA CurrentIs ==
    ASSUME NEW l
    PROVE  /\ CurrentLine(l) = LineIn(lines, memory, l)
           /\ CurrentLine(l)' = LineIn(lines', memory', l)
  BY DEF CurrentLine, Matches, LineIn

\* A line is found in the only way that holds its tag.
LEMMA ResidentLine ==
    ASSUME NEW held, NEW mem, NEW l, NEW w \in WayIds,
           held[l[2]][w].valid, held[l[2]][w].tag = l[1],
           \A v \in WayIds : held[l[2]][v].valid /\ held[l[2]][v].tag = l[1] => v = w
    PROVE  LineIn(held, mem, l) = held[l[2]][w].data
  <1> DEFINE ways == {v \in WayIds : held[l[2]][v].valid /\ held[l[2]][v].tag = l[1]}
  <1>1. ways = {w}
    OBVIOUS
  <1>2. (CHOOSE v \in ways : TRUE) = w
    BY <1>1
  <1> QED
    BY <1>1, <1>2 DEF LineIn

LEMMA AbsentLine ==
    ASSUME NEW held, NEW mem, NEW l,
           \A v \in WayIds : ~(held[l[2]][v].valid /\ held[l[2]][v].tag = l[1])
    PROVE  LineIn(held, mem, l) = mem[l]
  BY DEF LineIn

\* Only the set of the line and its place in memory are looked at.
LEMMA SameSetSameLine ==
    ASSUME NEW held, NEW held2, NEW mem, NEW mem2, NEW l,
           \A v \in WayIds : held2[l[2]][v] = held[l[2]][v],
           mem2[l] = mem[l]
    PROVE  LineIn(held2, mem2, l) = LineIn(held, mem, l)
  <1> DEFINE ways == {v \in WayIds : held[l[2]][v].valid /\ held[l[2]][v].tag = l[1]}
             ways2 == {v \in WayIds : held2[l[2]][v].valid /\ held2[l[2]][v].tag = l[1]}
  <1>1. ways2 = ways
    OBVIOUS
  <1>2. CASE ways = {}
    BY <1>1, <1>2 DEF LineIn
  <1>3. CASE ways # {}
    <2>1. (CHOOSE v \in ways : TRUE) \in ways
      BY <1>3
    <2>2. (CHOOSE v \in ways2 : TRUE) = (CHOOSE v \in ways : TRUE)
      BY <1>1
    <2> QED
      BY <1>1, <1>3, <2>1, <2>2 DEF LineIn
  <1> QED
    BY <1>2, <1>3

LEMMA LineFields ==
    ASSUME NEW l \in LineAddresses
    PROVE  l[1] \in Tags /\ l[2] \in SetIds /\ l = <<l[1], l[2]>>
  BY DEF LineAddresses

\* The line of the hit, and a line that no way holds, with the cache as it is.
LEMMA HitLine ==
    ASSUME RtlInv, req_pending, Hit
    PROVE  /\ <<req.tag, req.index>> \in LineAddresses
           /\ CurrentLine(<<req.tag, req.index>>) = lines[req.index][HitWay].data
           /\ HitWay \in WayIds /\ req.index \in SetIds
           /\ lines[req.index][HitWay].valid /\ lines[req.index][HitWay].tag = req.tag
           /\ \A w \in WayIds : lines[req.index][w].valid /\ lines[req.index][w].tag = req.tag
                 => w = HitWay
  <1>1. /\ HitWay \in WayIds
        /\ lines[req.index][HitWay].valid /\ lines[req.index][HitWay].tag = req.tag
        /\ \A w \in WayIds : lines[req.index][w].valid /\ lines[req.index][w].tag = req.tag
              => w = HitWay
    BY HitWayMatches DEF RtlInv, Matches
  <1>2. req.tag \in Tags /\ req.index \in SetIds
    BY ReqFields DEF RtlInv
  <1> DEFINE l == <<req.tag, req.index>>
  <1>3. l[1] = req.tag /\ l[2] = req.index
    OBVIOUS
  <1> HIDE DEF l
  <1>4. CurrentLine(l) = lines[req.index][HitWay].data
    BY <1>1, <1>3, CurrentIs, ResidentLine
  <1> QED
    BY <1>1, <1>2, <1>4 DEF l, LineAddresses

\* A step that leaves the lines leaves what the program finds, a writeback too.
LEMMA CurrentStays ==
    ASSUME ControlInv, cpu # "resetting", AgentCycle, lines' = lines,
           NEW l \in LineAddresses
    PROVE  CurrentLine(l)' = CurrentLine(l)
  <1>1. CASE memory'[l] = memory[l]
    BY <1>1, CurrentIs, SameSetSameLine
  <1>2. CASE memory'[l] # memory[l]
    <2>1. agent = "taken" /\ taken.write
          /\ memory' = [memory EXCEPT ![taken.addr] = taken.wdata]
      BY <1>2, MemoryMoves
    <2>2. l = taken.addr
      BY <1>2, <2>1 DEF ControlInv, SystemTyped
    <2>3. /\ taken.addr = <<Victim.tag, req.index>> /\ Victim.valid
          /\ req.index \in SetIds /\ lru_way[req.index] \in WayIds
      BY <2>1, StoreIsVictim
    <2>4. l[1] = Victim.tag /\ l[2] = req.index
      BY <2>2, <2>3
    <2>5. \A v \in WayIds : lines[l[2]][v].valid /\ lines[l[2]][v].tag = l[1]
                               => v = lru_way[req.index]
      BY <2>3, <2>4 DEF ControlInv, RtlInv, TagInOneWay, Victim
    <2>6. \A mem : LineIn(lines, mem, l) = lines[l[2]][lru_way[req.index]].data
      BY <2>3, <2>4, <2>5, ResidentLine DEF Victim
    <2> QED
      BY <2>6, CurrentIs
  <1> QED
    BY <1>1, <1>2

\* A fill changes nothing either: the line it drops is clean, and the one it brings is memory's.
LEMMA FillKeepsCurrent ==
    ASSUME ControlInv, HoldInv, CleanLineIsMemory,
           Cycle(FALSE, None, FALSE), FillEdge,
           NEW l \in LineAddresses
    PROVE  CurrentLine(l)' = CurrentLine(l)
  <1> DEFINE w0 == lru_way[req.index]
  <1>0. l[1] \in Tags /\ l[2] \in SetIds /\ l = <<l[1], l[2]>>
    BY LineFields
  <1>1. /\ memory' = memory
        /\ req.tag \in Tags /\ req.index \in SetIds /\ w0 \in WayIds
        /\ MemRespData = memory[<<req.tag, req.index>>]
        /\ ~VictimIsDirty /\ ~Hit
        /\ \A s \in SetIds, w \in WayIds :
              lines'[s][w] = IF s = req.index /\ w = w0
                             THEN [valid |-> TRUE, dirty |-> FALSE, tag |-> req.tag,
                                   data |-> MemRespData]
                             ELSE lines[s][w]
    BY FillIsMemory
  <1>2. \A w \in WayIds : ~(lines[req.index][w].valid /\ lines[req.index][w].tag = req.tag)
    BY <1>1 DEF Hit, Matches
  <1>3. /\ lines'[req.index][w0].valid /\ lines'[req.index][w0].tag = req.tag
        /\ lines'[req.index][w0].data = MemRespData
    BY <1>1
  <1>4. CASE l[2] # req.index
    <2>1. \A v \in WayIds : lines'[l[2]][v] = lines[l[2]][v]
      BY <1>0, <1>1, <1>4
    <2> QED
      BY <1>1, <2>1, CurrentIs, SameSetSameLine
  <1>5. CASE l[2] = req.index /\ l[1] = req.tag
    <2>1. CurrentLine(l) = memory[l]
      BY <1>2, <1>5, CurrentIs, AbsentLine
    <2>2. \A v \in WayIds : lines'[l[2]][v].valid /\ lines'[l[2]][v].tag = l[1] => v = w0
      BY <1>1, <1>2, <1>5
    <2>3. CurrentLine(l)' = MemRespData
      BY <1>1, <1>3, <1>5, <2>2, CurrentIs, ResidentLine
    <2> QED
      BY <1>0, <1>1, <1>5, <2>1, <2>3
  <1>6. CASE l[2] = req.index /\ l[1] # req.tag
    <2>1. \A v \in WayIds : lines'[l[2]][v].valid /\ lines'[l[2]][v].tag = l[1]
             <=> v # w0 /\ lines[l[2]][v].valid /\ lines[l[2]][v].tag = l[1]
      BY <1>1, <1>3, <1>6
    <2>2. CASE lines[l[2]][w0].valid /\ lines[l[2]][w0].tag = l[1]
      <3>1. \A v \in WayIds : lines[l[2]][v].valid /\ lines[l[2]][v].tag = l[1] => v = w0
        BY <1>0, <1>1, <2>2 DEF ControlInv, RtlInv, TagInOneWay
      <3>2. CurrentLine(l) = lines[l[2]][w0].data
        BY <1>1, <2>2, <3>1, CurrentIs, ResidentLine
      <3>3. CurrentLine(l)' = memory'[l]
        BY <2>1, <3>1, CurrentIs, AbsentLine
      <3>4. lines[l[2]][w0].data = memory[<<l[1], l[2]>>]
        BY <1>0, <1>1, <1>6, <2>2 DEF CleanLineIsMemory, VictimIsDirty, Victim
      <3> QED
        BY <1>0, <1>1, <3>2, <3>3, <3>4
    <2>3. CASE /\ ~(lines[l[2]][w0].valid /\ lines[l[2]][w0].tag = l[1])
               /\ \E v \in WayIds : lines[l[2]][v].valid /\ lines[l[2]][v].tag = l[1]
      <3>1. PICK v \in WayIds : lines[l[2]][v].valid /\ lines[l[2]][v].tag = l[1]
        BY <2>3
      <3>2. \A u \in WayIds : lines[l[2]][u].valid /\ lines[l[2]][u].tag = l[1] => u = v
        BY <1>0, <3>1 DEF ControlInv, RtlInv, TagInOneWay
      <3>3. v # w0 /\ lines'[l[2]][v] = lines[l[2]][v]
        BY <1>0, <1>1, <2>3, <3>1
      <3>4. CurrentLine(l) = lines[l[2]][v].data
        BY <3>1, <3>2, CurrentIs, ResidentLine
      <3>5. CurrentLine(l)' = lines'[l[2]][v].data
        BY <2>1, <3>1, <3>2, <3>3, CurrentIs, ResidentLine
      <3> QED
        BY <3>3, <3>4, <3>5
    <2>4. CASE \A v \in WayIds : ~(lines[l[2]][v].valid /\ lines[l[2]][v].tag = l[1])
      <3>1. CurrentLine(l) = memory[l]
        BY <2>4, CurrentIs, AbsentLine
      <3>2. CurrentLine(l)' = memory'[l]
        BY <2>1, <2>4, CurrentIs, AbsentLine
      <3> QED
        BY <1>1, <3>1, <3>2
    <2> QED
      BY <1>1, <2>2, <2>3, <2>4
  <1> QED
    BY <1>4, <1>5, <1>6

\* A write that hits changes the line it is for as the program did.
LEMMA WriteChangesCurrent ==
    ASSUME ControlInv, WriteHit, memory' = memory, NEW l \in LineAddresses
    PROVE  CurrentLine(l)' = IF l = <<req.tag, req.index>>
                             THEN MergedInto(CurrentLine(l), req) ELSE CurrentLine(l)
  <1> DEFINE old == lines[req.index][HitWay]
             bytes == MergedInto(old.data, req)
             new == [old EXCEPT !.data = bytes, !.dirty = TRUE]
  <1>0. l[1] \in Tags /\ l[2] \in SetIds /\ l = <<l[1], l[2]>>
    BY LineFields
  <1>1. req_pending /\ Hit
    BY DEF WriteHit, Processing
  <1>2. /\ HitWay \in WayIds /\ req.index \in SetIds
        /\ CurrentLine(<<req.tag, req.index>>) = old.data
        /\ old.valid /\ old.tag = req.tag
        /\ \A w \in WayIds : lines[req.index][w].valid /\ lines[req.index][w].tag = req.tag
              => w = HitWay
    BY <1>1, HitLine DEF ControlInv
  <1>3. \A s \in SetIds, w \in WayIds :
           lines'[s][w] = IF s = req.index /\ w = HitWay THEN new ELSE lines[s][w]
    BY WriteHitEffect DEF ControlInv, MergedInto
  <1>4. new.valid = old.valid /\ new.tag = old.tag /\ new.data = bytes
    <2>1. old \in LineRegister
      BY <1>2 DEF ControlInv, RtlInv, RegistersTyped
    <2> HIDE DEF old, bytes
    <2> QED
      BY <2>1 DEF LineRegister
  <1> HIDE DEF new
  <1>5. CASE l[2] # req.index
    <2>1. \A v \in WayIds : lines'[l[2]][v] = lines[l[2]][v]
      BY <1>0, <1>3, <1>5
    <2> QED
      BY <1>5, <2>1, CurrentIs, SameSetSameLine
  <1>6. CASE l[2] = req.index /\ l[1] = req.tag
    <2>1. \A v \in WayIds : lines'[l[2]][v].valid /\ lines'[l[2]][v].tag = l[1] => v = HitWay
      BY <1>2, <1>3, <1>6
    <2>2. /\ lines'[l[2]][HitWay].valid /\ lines'[l[2]][HitWay].tag = l[1]
          /\ lines'[l[2]][HitWay].data = bytes
      BY <1>2, <1>3, <1>4, <1>6
    <2>3. CurrentLine(l)' = bytes
      BY <1>2, <2>1, <2>2, CurrentIs, ResidentLine
    <2> QED
      BY <1>0, <1>2, <1>6, <2>3
  <1>7. CASE l[2] = req.index /\ l[1] # req.tag
    <2>1. \A v \in WayIds : /\ lines'[l[2]][v].valid = lines[l[2]][v].valid
                            /\ lines'[l[2]][v].tag = lines[l[2]][v].tag
      <3> TAKE v \in WayIds
      <3>1. CASE v = HitWay
        <4>1. lines'[l[2]][v] = new /\ lines[l[2]][v] = old
          BY <1>2, <1>3, <1>7, <3>1
        <4> HIDE DEF old, bytes
        <4> QED
          BY <1>4, <4>1
      <3>2. CASE v # HitWay
        BY <1>2, <1>3, <1>7, <3>2
      <3> QED
        BY <3>1, <3>2
    <2>2. CASE \E v \in WayIds : lines[l[2]][v].valid /\ lines[l[2]][v].tag = l[1]
      <3>1. PICK v \in WayIds : lines[l[2]][v].valid /\ lines[l[2]][v].tag = l[1]
        BY <2>2
      <3>2. \A u \in WayIds : lines[l[2]][u].valid /\ lines[l[2]][u].tag = l[1] => u = v
        BY <1>0, <3>1 DEF ControlInv, RtlInv, TagInOneWay
      <3>3. lines'[l[2]][v] = lines[l[2]][v]
        BY <1>0, <1>2, <1>3, <1>7, <3>1
      <3>4. CurrentLine(l) = lines[l[2]][v].data
        BY <3>1, <3>2, CurrentIs, ResidentLine
      <3>5. CurrentLine(l)' = lines'[l[2]][v].data
        BY <2>1, <3>1, <3>2, CurrentIs, ResidentLine
      <3> QED
        BY <1>7, <3>3, <3>4, <3>5
    <2>3. CASE \A v \in WayIds : ~(lines[l[2]][v].valid /\ lines[l[2]][v].tag = l[1])
      <3>1. CurrentLine(l) = memory[l]
        BY <2>3, CurrentIs, AbsentLine
      <3>2. CurrentLine(l)' = memory'[l]
        BY <2>1, <2>3, CurrentIs, AbsentLine
      <3> QED
        BY <1>7, <3>1, <3>2
    <2> QED
      BY <2>2, <2>3
  <1> QED
    BY <1>5, <1>6, <1>7

\* What is in the program's view, and what a reset leaves of it.
LEMMA ViewStarts ==
    ASSUME SystemInit
    PROVE  ViewIsKept /\ ReadsReturnWrites
  <1>1. ~req_pending /\ ~resp_valid_r /\ view = memory
    BY DEF SystemInit, RtlInit
  <1>2. \A s \in SetIds, w \in WayIds : ~lines[s][w].valid
    BY DEF SystemInit, RtlInit
  <1>3. \A l \in LineAddresses : CurrentLine(l) = memory[l]
    BY <1>2, LineFields, CurrentIs, AbsentLine
  <1> QED
    BY <1>1, <1>3 DEF ViewIsKept, ReadsReturnWrites

\* Where the view is kept by a step that neither writes nor accepts anything.
LEMMA QuietStepKeepsView ==
    ASSUME ControlInv, ViewIsKept, cpu # "resetting", AgentCycle,
           UNCHANGED <<lines, req_pending, req, view>>
    PROVE  ViewIsKept'
  <1>1. \A l \in LineAddresses : CurrentLine(l)' = CurrentLine(l)
    BY CurrentStays
  <1>2. Hit' = Hit
    BY DEF Hit, Matches
  <1>3. CASE req_pending /\ req.write
    <2>1. WriteOnItsWay
      BY <1>3 DEF ViewIsKept
    <2>2. WriteOnItsWay'
      BY <1>1, <1>2, <2>1 DEF WriteOnItsWay
    <2> QED
      BY <1>3, <2>2 DEF ViewIsKept
  <1>4. CASE ~(req_pending /\ req.write)
    BY <1>1, <1>4 DEF ViewIsKept
  <1> QED
    BY <1>3, <1>4

\* Accepting a request: a write is in the program's view from then on.
LEMMA StartKeepsView ==
    ASSUME ControlInv, ViewIsKept, ResponseTimeout > 3, WritesHitOnly,
           NEW r \in CpuRequests, StartRequest(r)
    PROVE  ViewIsKept'
  <1>1. /\ Drive(r) /\ CpuFree /\ AgentCycle /\ cpu # "resetting"
        /\ r.write => Matches(r.index, r.tag) # {}
        /\ cpu # "sampling" \/ waited > 3
        /\ req_pending => mem_req_pending /\ mem_req.write
    BY FreeOrStuck DEF StartRequest, Drive, Cycle
  <1>2. CASE req_pending
    <2>1. UNCHANGED <<lines, req_pending, req>>
      BY <1>1, <1>2, StuckEdge DEF Drive
    <2>2. view' = view
      BY <1>2 DEF StartRequest, Drive, Ready
    <2> QED
      BY <1>1, <2>1, <2>2, QuietStepKeepsView
  <1>3. CASE ~req_pending
    <2>1. Ready /\ lines' = lines /\ req_pending' = TRUE /\ req' = r
      BY <1>1, <1>3, QuietEdge DEF Drive
    <2>2. \A l \in LineAddresses : CurrentLine(l)' = view[l]
      BY <1>1, <1>3, <2>1, CurrentStays DEF ViewIsKept
    <2>3. CASE r.write
      <3>1. view' = Merged(r)
        BY <1>1, <2>1, <2>3 DEF Drive
      <3>2. Hit'
        BY <1>1, <2>1, <2>3 DEF Hit, Matches
      <3>3. \A l \in LineAddresses :
               view'[l] = IF l = <<r.tag, r.index>> THEN MergedInto(view[l], r) ELSE view[l]
        BY <3>1, ViewTyped DEF ControlInv
      <3>4. WriteOnItsWay'
        BY <2>1, <2>2, <3>2, <3>3 DEF WriteOnItsWay
      <3> QED
        BY <2>1, <2>3, <3>4 DEF ViewIsKept
    <2>4. CASE ~r.write
      <3>1. view' = view
        BY <1>1, <2>4 DEF Drive
      <3> QED
        BY <2>1, <2>2, <2>4, <3>1 DEF ViewIsKept
    <2> QED
      BY <2>3, <2>4
  <1> QED
    BY <1>2, <1>3

\* A write that is in the cache hits: it is never the one that a memory request is for.
LEMMA MissIsRead ==
    ASSUME ControlInv, ViewIsKept, req_pending, ~Hit
    PROVE  ~req.write /\ (\A l \in LineAddresses : CurrentLine(l) = view[l])
  BY DEF ControlInv, Phases, ViewIsKept, WriteOnItsWay

LEMMA AwaitKeepsView ==
    ASSUME ControlInv, HoldInv, CleanLineIsMemory, ViewIsKept, AwaitResponse
    PROVE  /\ ViewIsKept'
           /\ resp_valid_r' /\ ~req'.write =>
                 resp_data' = WordOf(view'[<<req'.tag, req'.index>>], req'.offset)
  <1>1. /\ cpu = "sampling" /\ ~resp_valid_r /\ req_pending /\ view' = view
        /\ AgentCycle /\ Cycle(FALSE, None, FALSE)
    BY DEF AwaitResponse, ControlInv, Phases, Cycle
  <1>2. CASE FillEdge
    <2>1. /\ req_pending' = FALSE /\ req' = req
          /\ resp_data' = WordOf(MemRespData, req.offset)
      BY <1>2 DEF FillEdge, FillLine, Respond
    <2>2. /\ ~Hit /\ <<req.tag, req.index>> \in LineAddresses
          /\ MemRespData = memory[<<req.tag, req.index>>]
      BY <1>1, <1>2, FillIsMemory
    <2>3. \A l \in LineAddresses : CurrentLine(l) = view[l]
      BY <1>1, <2>2, MissIsRead
    <2>4. \A l \in LineAddresses : CurrentLine(l)' = view[l]
      BY <1>1, <1>2, <2>3, FillKeepsCurrent
    <2>5. CurrentLine(<<req.tag, req.index>>) = memory[<<req.tag, req.index>>]
      <3> DEFINE l == <<req.tag, req.index>>
      <3>1. l[1] = req.tag /\ l[2] = req.index
        OBVIOUS
      <3>2. \A w \in WayIds : ~(lines[req.index][w].valid /\ lines[req.index][w].tag = req.tag)
        BY <2>2 DEF Hit, Matches
      <3> HIDE DEF l
      <3>3. CurrentLine(l) = memory[l]
        BY <3>1, <3>2, CurrentIs, AbsentLine
      <3> QED
        BY <3>3 DEF l
    <2> QED
      BY <1>1, <2>1, <2>2, <2>3, <2>4, <2>5 DEF ViewIsKept
  <1>3. CASE ReadHit
    <2>1. /\ req_pending' = FALSE /\ req' = req /\ lines' = lines /\ ~req.write /\ Hit
          /\ resp_data' = WordOf(lines[req.index][HitWay].data, req.offset)
      BY <1>3 DEF ReadHit, Respond
    <2>2. \A l \in LineAddresses : CurrentLine(l) = view[l]
      BY <1>1, <2>1 DEF ViewIsKept
    <2>3. \A l \in LineAddresses : CurrentLine(l)' = view[l]
      BY <1>1, <2>1, <2>2, CurrentStays
    <2>4. /\ <<req.tag, req.index>> \in LineAddresses
          /\ CurrentLine(<<req.tag, req.index>>) = lines[req.index][HitWay].data
      BY <1>1, <2>1, HitLine DEF ControlInv
    <2> QED
      BY <1>1, <2>1, <2>2, <2>3, <2>4 DEF ViewIsKept
  <1>4. CASE WriteHit /\ HitEdge
    <2>1. req_pending' = FALSE /\ req' = req /\ req.write
      BY <1>4 DEF WriteHit, Respond
    <2>2. memory' = memory
      BY <1>1, <1>4, MemoryMoves, StoreIsVictim DEF HitEdge
    <2>3. WriteOnItsWay
      BY <1>1, <2>1 DEF ViewIsKept
    <2>4. \A l \in LineAddresses : CurrentLine(l)' = view[l]
      BY <1>4, <2>2, <2>3, WriteChangesCurrent DEF WriteOnItsWay
    <2> QED
      BY <1>1, <2>1, <2>4 DEF ViewIsKept
  <1>5. CASE RequestEdge \/ WaitEdge
    <2>1. UNCHANGED <<lines, req_pending, req>> /\ ~resp_valid_r'
      <3>1. CASE RequestWriteback
        BY <1>1, <3>1 DEF RequestWriteback
      <3>2. CASE RequestFill
        BY <1>1, <3>2 DEF RequestFill
      <3>3. CASE WaitEdge
        BY <1>1, <3>3 DEF WaitEdge, Wait, ClearResponse
      <3> QED
        BY <1>5, <3>1, <3>2, <3>3 DEF RequestEdge
    <2>2. ViewIsKept'
      BY <1>1, <2>1, QuietStepKeepsView
    <2> QED
      BY <2>1, <2>2
  <1> QED
    BY <1>1, <1>2, <1>3, <1>4, <1>5, AwaitingEdge DEF HitEdge

LEMMA ResettingKeepsView ==
    ASSUME ControlInv, KeepResetting
    PROVE  ViewIsKept'
  <1>1. ControlInv'
    BY KeepResettingKeepsControl
  <1>2. ~req_pending' /\ \A s \in SetIds, w \in WayIds : ~lines'[s][w].valid
    <2>1. CASE waited > 2
      BY <2>1, ResetClears DEF KeepResetting, ControlInv
    <2>2. CASE ~(waited > 2)
      <3>1. Cycle(FALSE, None, FALSE) /\ ~req_pending
        BY <2>2 DEF KeepResetting, ControlInv, Phases
      <3>2. lines' = lines /\ req_pending' = req_pending
        BY <3>1, QuietEdge
      <3> QED
        BY <3>1, <3>2 DEF KeepResetting, ControlInv, Phases
    <2> QED
      BY <2>1, <2>2
  <1>3. \A l \in LineAddresses : CurrentLine(l)' = memory'[l]
    BY <1>2, LineFields, CurrentIs, AbsentLine
  <1> QED
    BY <1>2, <1>3 DEF KeepResetting, ViewIsKept

LEMMA ViewKept ==
    ASSUME ControlInv, HoldInv, CleanLineIsMemory, ViewIsKept, ReadsReturnWrites,
           ResponseTimeout > 3, WritesHitOnly, [SystemNext]_systemVars
    PROVE  ViewIsKept' /\ ReadsReturnWrites'
  <1>1. CASE \E r \in CpuRequests : StartRequest(r)
    <2>1. PICK r \in CpuRequests : StartRequest(r)
      BY <1>1
    <2>2. Drive(r) /\ CpuFree
      BY <2>1 DEF StartRequest
    <2>3. ControlInv'
      BY <2>2, DriveKeepsControl
    <2>4. cpu' = "sampling" => ~resp_valid_r'
      BY <2>2, FreeOrStuck, QuietEdge DEF Drive, Ready
    <2> QED
      BY <2>1, <2>4, StartKeepsView DEF ReadsReturnWrites
  <1>2. CASE KeepDriving
    <2>1. /\ cpu = "driving" /\ req_pending /\ mem_req_pending /\ mem_req.write
          /\ Drive(cpu_req) /\ ~Ready /\ AgentCycle
      BY <1>2 DEF KeepDriving, Drive, Cycle, ControlInv, Phases, Ready
    <2>2. UNCHANGED <<lines, req_pending, req>>
      BY <2>1, StuckEdge DEF Drive
    <2>3. view' = view /\ cpu' = "driving"
      BY <2>1 DEF Drive
    <2> QED
      BY <2>1, <2>2, <2>3, QuietStepKeepsView DEF ReadsReturnWrites
  <1>3. CASE AwaitResponse
    BY <1>3, AwaitKeepsView DEF ReadsReturnWrites
  <1>4. CASE TakeResponse
    <2>1. ~req_pending /\ Cycle(FALSE, None, TRUE) /\ cpu # "resetting" /\ AgentCycle
      BY <1>4 DEF TakeResponse, Cycle, ControlInv, Phases
    <2>2. UNCHANGED <<lines, req_pending, req>>
      BY <2>1, QuietEdge
    <2> QED
      BY <1>4, <2>1, <2>2, QuietStepKeepsView DEF TakeResponse, ReadsReturnWrites
  <1>5. CASE StayIdle
    <2>1. /\ Cycle(FALSE, None, FALSE) /\ cpu # "resetting" /\ AgentCycle
          /\ req_pending => mem_req_pending /\ mem_req.write
          /\ cpu # "sampling" \/ waited > 3
      BY <1>5, FreeOrStuck DEF StayIdle, Cycle
    <2>2. UNCHANGED <<lines, req_pending, req>>
      BY <2>1, QuietEdge, StuckEdge
    <2> QED
      BY <1>5, <2>1, <2>2, QuietStepKeepsView DEF StayIdle, ReadsReturnWrites
  <1>6. CASE StartReset
    BY <1>6 DEF StartReset, ViewIsKept, ReadsReturnWrites
  <1>7. CASE KeepResetting
    BY <1>7, ResettingKeepsView DEF KeepResetting, ReadsReturnWrites
  <1>8. CASE UNCHANGED systemVars
    <2>1. /\ UNCHANGED <<lines, req_pending, req, view, cpu, memory, resp_valid_r, resp_data>>
      BY <1>8 DEF systemVars, rtlVars, cpuVars, agentVars
    <2>2. \A l : CurrentLine(l)' = CurrentLine(l)
      BY <2>1 DEF CurrentLine, Matches
    <2> QED
      BY <2>1, <2>2 DEF ViewIsKept, WriteOnItsWay, Hit, Matches, ReadsReturnWrites
  <1> QED
    BY <1>1, <1>2, <1>3, <1>4, <1>5, <1>6, <1>7, <1>8 DEF SystemNext

(***************************************************************************)
(* Nothing the program wrote is lost: the resident line, and otherwise     *)
(* memory, holds its view, through hits, fills, clean and dirty evictions, *)
(* timeouts and resets; when its writes hit (a write that misses is never  *)
(* merged into the line that is filled, NutShellCache.v:122).              *)
(***************************************************************************)
THEOREM ViewIsInvariant ==
    ASSUME ResponseTimeout > 3, Latency < 4, WritesHitOnly
    PROVE  SystemSpec => [](ViewIsKept /\ ReadsReturnWrites)
  <1>1. SystemInit => ViewIsKept /\ ReadsReturnWrites
    BY ViewStarts
  <1>2. /\ ControlInv /\ HoldInv /\ CleanLineIsMemory /\ ViewIsKept /\ ReadsReturnWrites
        /\ [SystemNext]_systemVars
        => ViewIsKept' /\ ReadsReturnWrites'
    BY ViewKept
  <1> QED
    BY <1>1, <1>2, ResponsesEndInTime, CleanLinesAreMemory, PTL DEF SystemSpec

(***************************************************************************)
(* A read returns what the program last wrote there, or what memory held.  *)
(***************************************************************************)
THEOREM ReadsAreWrites ==
    ASSUME ResponseTimeout > 3, Latency < 4, WritesHitOnly
    PROVE  SystemSpec => []ReadsReturnWrites
  BY ViewIsInvariant, PTL

(***************************************************************************)
(* Between the write and its answer, and during a reset, the view is ahead *)
(* of the cache; at any other time they agree.                             *)
(***************************************************************************)
THEOREM WritesAreKept ==
    ASSUME ResponseTimeout > 3, Latency < 4, WritesHitOnly
    PROVE  SystemSpec => []NothingWrittenIsLost
  <1>1. ViewIsKept => NothingWrittenIsLost
    BY DEF ViewIsKept, NothingWrittenIsLost
  <1> QED
    BY <1>1, ViewIsInvariant, PTL
-----------------------------------------------------------------------------
(***************************************************************************)
(* The cache between its coroutines implements MemoryPort.  What ViewIsKept*)
(* does not say is what a writeback that a reset met still stores: a line  *)
(* as the program saw it when the reset began.                             *)
(***************************************************************************)
TakenIsCurrent == agent = "taken" /\ taken.write => taken.wdata = view[taken.addr]

PortInv ==
    /\ ControlInv /\ HoldInv /\ CleanLineIsMemory
    /\ ViewIsKept /\ ReadsReturnWrites
    /\ TakenIsCurrent

\* The data of a writeback that is out are what the program would read there.
LEMMA WritebackIsCurrent ==
    ASSUME ControlInv, ViewIsKept, mem_req_pending, mem_req.write
    PROVE  mem_req.wdata = view[mem_req.addr]
  <1>1. req_pending /\ ~Hit /\ cpu # "resetting"
    BY DEF ControlInv, RtlInv, MemRequestIsMiss, Phases
  <1>2. /\ mem_req.addr = <<Victim.tag, req.index>> /\ mem_req.wdata = Victim.data
        /\ Victim.valid
        /\ req.index \in SetIds /\ lru_way[req.index] \in WayIds
    BY <1>1, ReqFields DEF ControlInv, RtlInv, MemRequestFitsVictim, VictimIsDirty
  <1> DEFINE l == <<Victim.tag, req.index>>
  <1>3. l \in LineAddresses
    BY <1>2 DEF ControlInv, RtlInv, RegistersTyped, Victim, LineAddresses
  <1>4. CurrentLine(l) = view[l]
    BY <1>1, <1>3, MissIsRead
  <1>5. l[1] = Victim.tag /\ l[2] = req.index
    OBVIOUS
  <1>6. \A v \in WayIds : lines[req.index][v].valid /\ lines[req.index][v].tag = Victim.tag
                             => v = lru_way[req.index]
    BY <1>2 DEF ControlInv, RtlInv, TagInOneWay, Victim
  <1> HIDE DEF l
  <1>7. CurrentLine(l) = Victim.data
    <2>1. LineIn(lines, memory, l) = lines[l[2]][lru_way[req.index]].data
      BY <1>2, <1>5, <1>6, ResidentLine DEF Victim
    <2> QED
      BY <1>5, <2>1, CurrentIs DEF Victim
  <1> QED
    BY <1>2, <1>4, <1>7 DEF l

\* What the agent takes next is out, and the step leaves the program's view of it.
LEMMA TakenStaysCurrent ==
    ASSUME ControlInv, ViewIsKept, TakenIsCurrent, [SystemNext]_systemVars
    PROVE  TakenIsCurrent'
  <1>1. CASE UNCHANGED systemVars
    BY <1>1 DEF systemVars, agentVars, TakenIsCurrent
  <1>2. CASE SystemNext
    <2> SUFFICES ASSUME agent' = "taken", taken'.write PROVE taken'.wdata = view'[taken'.addr]
      BY DEF TakenIsCurrent
    <2>1. AgentCycle
      BY <1>2, NextCycles
    <2>2. mem_req_pending /\ taken' = mem_req
      BY <2>1, AgentMoves DEF ControlInv
    <2>3. mem_req.wdata = view[mem_req.addr]
      BY <2>2, WritebackIsCurrent
    <2>4. ~Ready /\ cpu # "resetting"
      BY <2>2 DEF Ready, ControlInv, Phases
    <2>5. view' = view
      BY <1>2, <2>4
         DEF SystemNext, StartRequest, KeepDriving, Drive, AwaitResponse, TakeResponse, StayIdle,
             StartReset, KeepResetting
    <2> QED
      BY <2>2, <2>3, <2>5
  <1> QED
    BY <1>1, <1>2

\* Whatever the agent stores in a cycle, the program would have read it there.
LEMMA CyclePutsBack ==
    ASSUME ControlInv, TakenIsCurrent, AgentCycle
    PROVE  /\ Port!MayPutBack
           /\ ~(agent = "taken" /\ taken.write) => memory' = memory
  <1>0. memory \in [LineAddresses -> LineData] /\ view \in [LineAddresses -> LineData]
    BY DEF ControlInv, SystemTyped
  <1>1. CASE memory' = memory
    <2>1. memory' = [l \in LineAddresses |-> IF l \in {} THEN view[l] ELSE memory[l]]
      BY <1>0, <1>1
    <2>2. {} \in SUBSET LineAddresses
      OBVIOUS
    <2>3. Port!MayPutBack
      BY <2>1, <2>2 DEF Port!MayPutBack
    <2> QED
      BY <1>1, <2>3
  <1>2. CASE /\ agent = "taken" /\ taken.write
             /\ memory' = [memory EXCEPT ![taken.addr] = taken.wdata]
    <2>1. taken.addr \in LineAddresses /\ taken.wdata = view[taken.addr]
      BY <1>2 DEF ControlInv, SystemTyped, TakenIsCurrent
    <2>2. memory' = [l \in LineAddresses |-> IF l \in {taken.addr} THEN view[l] ELSE memory[l]]
      BY <1>0, <1>2, <2>1
    <2>3. {taken.addr} \in SUBSET LineAddresses
      BY <2>1
    <2> QED
      BY <1>2, <2>2, <2>3 DEF Port!MayPutBack
  <1> QED
    BY <1>1, <1>2, MemoryMoves

\* A cycle that neither takes nor answers a request: the port sees a writeback at most.
LEMMA QuietIsPutBack ==
    ASSUME ControlInv, TakenIsCurrent, AgentCycle, view' = view, PortState' = PortState
    PROVE  Port!PutBack
  BY CyclePutsBack DEF Port!PutBack

\* A request that raised TimeoutError is given up; before any other start the port is free.
LEMMA LeaveIsGiveUp ==
    ASSUME ControlInv, TakenIsCurrent, AgentCycle, CpuFree, cpu' # "sampling", view' = view
    PROVE  Port!GiveUp \/ Port!PutBack
  <1>1. CASE cpu = "sampling"
    <2>1. PortState = [phase |-> "asked", request |-> req]
      BY <1>1 DEF CpuFree, TimedOut, PortState
    <2>2. PortState' = Port!Free
      BY DEF PortState, Port!Free
    <2> QED
      BY <2>1, <2>2, CyclePutsBack DEF Port!GiveUp
  <1>2. CASE cpu # "sampling"
    BY <1>2, QuietIsPutBack DEF PortState
  <1> QED
    BY <1>1, <1>2

LEMMA StartIsAsk ==
    ASSUME PortInv, ResponseTimeout > 3, NEW r \in CpuRequests, StartRequest(r)
    PROVE  Port!GiveUp \/ Port!PutBack \/ Port!Ask(r)
  <1>1. Drive(r) /\ CpuFree /\ AgentCycle
    BY DEF StartRequest, Drive, Cycle
  <1>2. CASE ~Ready
    BY <1>1, <1>2, LeaveIsGiveUp DEF PortInv, Drive
  <1>3. CASE Ready
    <2>1. ~req_pending /\ cpu = "idle" /\ ~mem_req_pending
      BY <1>1, <1>3, FreeOrStuck DEF Ready, PortInv
    <2>2. req' = r /\ ~resp_valid_r'
      BY <1>1, <2>1, FreeOrStuck, QuietEdge DEF Drive, PortInv
    <2>3. cpu' = "sampling" /\ view' = AfterRequest(view, r)
      BY <1>1, <1>3 DEF Drive, Merged, AfterRequest
    <2>4. memory' = memory
      BY <1>1, <2>1, CyclePutsBack DEF PortInv, ControlInv, TakenIsOut
    <2>5. PortState = Port!Free /\ PortState' = Port!Asked(r)
      BY <2>1, <2>2, <2>3 DEF PortState, Port!Free, Port!Asked
    <2> QED
      BY <2>3, <2>4, <2>5 DEF Port!Ask
  <1> QED
    BY <1>2, <1>3

LEMMA AwaitIsServe ==
    ASSUME PortInv, AwaitResponse
    PROVE  Port!PutBack \/ \E r \in CpuRequests : Port!Serve(r)
  <1>1. /\ cpu = "sampling" /\ ~resp_valid_r /\ req_pending /\ view' = view
        /\ cpu' = "sampling" /\ AgentCycle /\ Cycle(FALSE, None, FALSE)
        /\ req \in CpuRequests
    BY DEF AwaitResponse, PortInv, ControlInv, Phases, RtlInv, RegistersTyped, Cycle
  <1>2. CASE FillEdge \/ HitEdge
    <2>1. resp_valid_r' /\ req' = req
      BY <1>2 DEF FillEdge, HitEdge, FillLine, ReadHit, WriteHit, Respond
    <2>2. ~(agent = "taken" /\ taken.write)
      BY <1>1, <1>2, StoreIsVictim
         DEF PortInv, FillEdge, HitEdge, Serving
    <2>3. memory' = memory
      BY <1>1, <2>2, CyclePutsBack DEF PortInv
    <2>4. ~req.write => resp_data' = WordOf(view[<<req.tag, req.index>>], req.offset)
      BY <1>1, <2>1, AwaitKeepsView DEF PortInv
    <2>5. PortState = Port!Asked(req) /\ PortState' = Port!Answered(req, ReplyTo(view, req))
      BY <1>1, <2>1, <2>4 DEF PortState, ReplyTo, Port!Asked, Port!Answered
    <2> QED
      BY <1>1, <2>3, <2>5 DEF Port!Serve
  <1>3. CASE RequestEdge \/ WaitEdge
    <2>1. ~resp_valid_r' /\ req' = req
      <3>1. CASE RequestWriteback
        BY <1>1, <3>1 DEF RequestWriteback
      <3>2. CASE RequestFill
        BY <1>1, <3>2 DEF RequestFill
      <3>3. CASE WaitEdge
        BY <1>1, <3>3 DEF WaitEdge, Wait, ClearResponse
      <3> QED
        BY <1>3, <3>1, <3>2, <3>3 DEF RequestEdge
    <2>2. PortState' = PortState
      BY <1>1, <2>1 DEF PortState
    <2> QED
      BY <1>1, <2>2, QuietIsPutBack DEF PortInv
  <1> QED
    BY <1>1, <1>2, <1>3, AwaitingEdge DEF PortInv

LEMMA TakeIsTake ==
    ASSUME PortInv, TakeResponse
    PROVE  Port!Take
  <1>1. /\ cpu = "sampling" /\ resp_valid_r /\ ~req_pending /\ cpu' = "idle" /\ view' = view
        /\ AgentCycle
    BY DEF TakeResponse, PortInv, ControlInv, Phases, Cycle
  <1>2. agent # "taken"
    BY <1>1 DEF PortInv, ControlInv, RtlInv, MemRequestIsMiss, TakenIsOut
  <1>3. memory' = memory
    BY <1>1, <1>2, CyclePutsBack DEF PortInv
  <1>4. PortState.phase = "answered" /\ PortState' = Port!Free
    BY <1>1 DEF PortState, Port!Free
  <1> QED
    BY <1>1, <1>3, <1>4 DEF Port!Take

LEMMA ResettingFallsBack ==
    ASSUME PortInv, KeepResetting
    PROVE  Port!PutBack \/ Port!FallBack
  <1>1. cpu = "resetting" /\ cpu' # "sampling" /\ AgentCycle
    BY DEF KeepResetting, Cycle
  <1>2. PortState = Port!Free /\ PortState' = PortState
    BY <1>1 DEF PortState, Port!Free
  <1>3. CASE waited # 1
    BY <1>1, <1>2, <1>3, QuietIsPutBack DEF PortInv, KeepResetting
  <1>4. CASE waited = 1
    <2>1. agent # "taken"
      BY <1>1, <1>4, SystemConstantsAssumption
         DEF PortInv, ControlInv, TakenIsOut, Phases
    <2>2. memory' = memory /\ view' = memory'
      BY <1>1, <1>4, <2>1, CyclePutsBack DEF PortInv, KeepResetting
    <2> QED
      BY <1>2, <2>2 DEF Port!FallBack
  <1> QED
    BY <1>3, <1>4

LEMMA SystemStepIsPortStep ==
    ASSUME PortInv, ResponseTimeout > 3, [SystemNext]_systemVars
    PROVE  [Port!PortNext]_(Port!portVars)
  <1>1. ASSUME NEW r \in CpuRequests, StartRequest(r) PROVE Port!PortNext
    BY <1>1, StartIsAsk DEF Port!PortNext
  <1>2. CASE KeepDriving
    <2>1. /\ cpu = "driving" /\ ~Ready /\ Drive(cpu_req)
      BY <1>2 DEF KeepDriving, PortInv, ControlInv, Phases, Ready
    <2>2. AgentCycle /\ view' = view /\ PortState' = PortState
      BY <2>1 DEF Drive, Cycle, PortState
    <2> QED
      BY <2>2, QuietIsPutBack DEF PortInv, Port!PortNext
  <1>3. CASE AwaitResponse
    BY <1>3, AwaitIsServe DEF Port!PortNext
  <1>4. CASE TakeResponse
    BY <1>4, TakeIsTake DEF Port!PortNext
  <1>5. CASE StayIdle
    BY <1>5, LeaveIsGiveUp DEF StayIdle, Cycle, PortInv, Port!PortNext
  <1>6. CASE StartReset
    BY <1>6, LeaveIsGiveUp DEF StartReset, PortInv, Port!PortNext
  <1>7. CASE KeepResetting
    BY <1>7, ResettingFallsBack DEF Port!PortNext
  <1>8. CASE UNCHANGED systemVars
    BY <1>8 DEF systemVars, rtlVars, cpuVars, agentVars, PortState, Port!portVars
  <1> QED
    BY <1>1, <1>2, <1>3, <1>4, <1>5, <1>6, <1>7, <1>8 DEF SystemNext

(***************************************************************************)
(* A reset edge that meets a writeback the agent has just read lets it     *)
(* store the line once more: as the program saw it before the reset.       *)
(***************************************************************************)
THEOREM PortInvariant ==
    ASSUME ResponseTimeout > 3, Latency < 4, WritesHitOnly
    PROVE  SystemSpec => []PortInv
  <1>1. SystemInit => PortInv
    <2>1. SystemInit => TakenIsCurrent
      BY DEF SystemInit, TakenIsCurrent
    <2> QED
      BY <2>1, SystemStarts, MemoryStarts, ViewStarts DEF PortInv
  <1>2. PortInv /\ [SystemNext]_systemVars => PortInv'
    BY NextKeepsControl, HoldKept, CleanKept, ViewKept, TakenStaysCurrent DEF PortInv
  <1> QED
    BY <1>1, <1>2, PTL DEF SystemSpec

(***************************************************************************)
(* The cache between its coroutines is a memory port (MemoryPort), for     *)
(* every geometry, stream of writes that hit and latency under four: step  *)
(* by step, with the writeback on the way and the reset across it.         *)
(***************************************************************************)
THEOREM SystemImplementsPort ==
    ASSUME ResponseTimeout > 3, Latency < 4, WritesHitOnly
    PROVE  SystemSpec => ImplementsPort
  <1>1. SystemInit => Port!PortInit
    BY DEF SystemInit, PortState, Port!PortInit, Port!Free
  <1>2. PortInv /\ [SystemNext]_systemVars => [Port!PortNext]_(Port!portVars)
    BY SystemStepIsPortStep
  <1> QED
    BY <1>1, <1>2, PortInvariant, PTL DEF SystemSpec, ImplementsPort, Port!PortSpec
=============================================================================
