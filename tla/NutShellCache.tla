--------------------------- MODULE NutShellCache ---------------------------
(***************************************************************************)
(* rtl/NutShellCache.v, one rising clock edge per step.  Each if of the    *)
(* always block is an action; in one edge at most one of them changes more *)
(* than the clearing of the response, which all of them include: that a    *)
(* fill and a hit exclude each other is MemRequestIsMiss below.  A later   *)
(* nonblocking assignment wins, so a new response wins over the clearing.  *)
(*                                                                         *)
(* An address is its bit fields: tag, index and offset.  A word is         *)
(* WordBytes bytes and stays within its line.  No part of the machine      *)
(* reads io_mem_req_ready, io_mem_resp_ready is constant, and backing_mem  *)
(* is declared but not used.                                               *)
(***************************************************************************)
EXTENDS Naturals

CONSTANTS
    Sets, Ways, LineBytes, WordBytes,
    Tags, Byte,
    CpuRequests,     \* [write, tag, index, offset, wdata, wmask]
    None

ASSUME GeometryAssumption ==
    /\ Sets \in Nat \ {0} /\ Ways \in Nat \ {0}
    /\ LineBytes \in Nat /\ WordBytes \in Nat

SetIds == 0 .. Sets - 1
WayIds == 0 .. Ways - 1
LineData == [0 .. LineBytes - 1 -> Byte]
Word == [0 .. WordBytes - 1 -> Byte]

IsCpuRequest(r) ==
    /\ r.write \in BOOLEAN
    /\ r.tag \in Tags /\ r.index \in SetIds
    /\ r.offset \in Nat /\ r.offset + WordBytes <= LineBytes
    /\ r.wdata \in Word /\ r.wmask \subseteq 0 .. WordBytes - 1

ASSUME CpuRequestsAssumption == \A r \in CpuRequests : IsCpuRequest(r)

VARIABLES
    lines,             \* cache_valid, cache_dirty, cache_tag, cache_data
    lru_way,
    req_pending, req,  \* req_write .. req_wmask
    resp_valid_r, resp_data,
    mem_req_pending, mem_req

rtlVars == <<lines, lru_way, req_pending, req, resp_valid_r, resp_data,
             mem_req_pending, mem_req>>

Matches(s, t) == {w \in WayIds : lines[s][w].valid /\ lines[s][w].tag = t}
Hit == Matches(req.index, req.tag) # {}

\* The loop leaves the last way that matches.
HitWay == CHOOSE w \in Matches(req.index, req.tag) :
              \A v \in Matches(req.index, req.tag) : v <= w

Ready == ~req_pending /\ ~mem_req_pending

WordOf(data, offset) == [i \in 0 .. WordBytes - 1 |-> data[offset + i]]

Victim == lines[req.index][lru_way[req.index]]

\* Faulty variant: the request stays pending.
RespondKeeping(data) ==
    /\ resp_valid_r' = TRUE
    /\ resp_data' = data
    /\ UNCHANGED req_pending

Respond(data) ==
    /\ resp_valid_r' = TRUE
    /\ resp_data' = data
    /\ req_pending' = FALSE

ClearResponse(resp_ready) == resp_valid_r' = (resp_valid_r /\ ~resp_ready)
-----------------------------------------------------------------------------
\* Clear valid and dirty; tags and data stay.
ResetEdge ==
    /\ req_pending' = FALSE /\ resp_valid_r' = FALSE /\ mem_req_pending' = FALSE
    /\ lru_way' = [s \in SetIds |-> 0]
    /\ lines' = [s \in SetIds |-> [w \in WayIds |->
                    [lines[s][w] EXCEPT !.valid = FALSE, !.dirty = FALSE]]]
    /\ UNCHANGED <<req, resp_data, mem_req>>

FillLine(data) ==
    /\ mem_req_pending
    /\ mem_req_pending' = FALSE
    /\ lines' = [lines EXCEPT ![req.index][lru_way[req.index]] =
                    [valid |-> TRUE, dirty |-> FALSE, tag |-> req.tag, data |-> data]]
    /\ Respond(WordOf(data, req.offset))
    /\ UNCHANGED <<lru_way, req, mem_req>>

AcceptRequest(r, resp_ready) ==
    /\ Ready
    /\ req_pending' = TRUE
    /\ req' = r
    /\ ClearResponse(resp_ready)
    /\ UNCHANGED <<lines, lru_way, resp_data, mem_req_pending, mem_req>>

Processing == req_pending /\ ~resp_valid_r

\* The victim pointer moves to the way after the one that hit.
PointPastHit ==
    lru_way' = [lru_way EXCEPT ![req.index] = IF HitWay = Ways - 1 THEN 0 ELSE HitWay + 1]

ReadHit ==
    /\ Processing /\ Hit /\ ~req.write
    /\ Respond(WordOf(lines[req.index][HitWay].data, req.offset))
    /\ PointPastHit
    /\ UNCHANGED <<lines, req, mem_req_pending, mem_req>>

\* Faulty variant: the dirty bit is not set.
WriteHitClean ==
    /\ Processing /\ Hit /\ req.write
    /\ lines' = [lines EXCEPT ![req.index][HitWay].data =
                    [b \in DOMAIN @ |-> IF b - req.offset \in req.wmask
                                        THEN req.wdata[b - req.offset] ELSE @[b]]]
    /\ Respond([i \in 0 .. WordBytes - 1 |-> 0])
    /\ PointPastHit
    /\ UNCHANGED <<req, mem_req_pending, mem_req>>

\* Faulty variant: every byte is written.
WriteHitUnmasked ==
    /\ Processing /\ Hit /\ req.write
    /\ lines' = [lines EXCEPT
          ![req.index][HitWay].data =
              [b \in DOMAIN @ |-> IF b - req.offset \in 0 .. WordBytes - 1
                                  THEN req.wdata[b - req.offset] ELSE @[b]],
          ![req.index][HitWay].dirty = TRUE]
    /\ Respond([i \in 0 .. WordBytes - 1 |-> 0])
    /\ PointPastHit
    /\ UNCHANGED <<req, mem_req_pending, mem_req>>

WriteHit ==
    /\ Processing /\ Hit /\ req.write
    /\ lines' = [lines EXCEPT
          ![req.index][HitWay].data =
              [b \in DOMAIN @ |-> IF b - req.offset \in req.wmask
                                  THEN req.wdata[b - req.offset] ELSE @[b]],
          ![req.index][HitWay].dirty = TRUE]
    /\ Respond([i \in 0 .. WordBytes - 1 |-> 0])
    /\ PointPastHit
    /\ UNCHANGED <<req, mem_req_pending, mem_req>>

VictimIsDirty == Victim.valid /\ Victim.dirty

\* Faulty variant: the address of the line that is asked for.
RequestWritebackAtNewLine ==
    /\ Processing /\ ~Hit /\ ~mem_req_pending
    /\ VictimIsDirty
    /\ mem_req_pending' = TRUE
    /\ mem_req' = [write |-> TRUE, addr |-> <<req.tag, req.index>>, wdata |-> Victim.data]
    /\ UNCHANGED <<lines, lru_way, req_pending, req, resp_valid_r, resp_data>>

RequestWriteback ==
    /\ Processing /\ ~Hit /\ ~mem_req_pending
    /\ VictimIsDirty
    /\ mem_req_pending' = TRUE
    /\ mem_req' = [write |-> TRUE, addr |-> <<Victim.tag, req.index>>, wdata |-> Victim.data]
    /\ UNCHANGED <<lines, lru_way, req_pending, req, resp_valid_r, resp_data>>

\* Faulty variant: the victim is not looked at.
RequestFillUnguarded ==
    /\ Processing /\ ~Hit /\ ~mem_req_pending
    /\ mem_req_pending' = TRUE
    /\ mem_req' = [write |-> FALSE, addr |-> <<req.tag, req.index>>, wdata |-> None]
    /\ UNCHANGED <<lines, lru_way, req_pending, req, resp_valid_r, resp_data>>

\* Faulty variant: a hit is no reason not to fill.
RequestFillOnHit ==
    /\ Processing /\ ~mem_req_pending
    /\ ~VictimIsDirty
    /\ mem_req_pending' = TRUE
    /\ mem_req' = [write |-> FALSE, addr |-> <<req.tag, req.index>>, wdata |-> None]
    /\ UNCHANGED <<lines, lru_way, req_pending, req, resp_valid_r, resp_data>>

RequestFill ==
    /\ Processing /\ ~Hit /\ ~mem_req_pending
    /\ ~VictimIsDirty
    /\ mem_req_pending' = TRUE
    /\ mem_req' = [write |-> FALSE, addr |-> <<req.tag, req.index>>, wdata |-> None]
    /\ UNCHANGED <<lines, lru_way, req_pending, req, resp_valid_r, resp_data>>

\* No part but the clearing applies.
Wait(req_valid, resp_ready, mem_resp_valid) ==
    /\ ~(req_valid /\ Ready)
    /\ ~(mem_resp_valid /\ mem_req_pending)
    /\ Processing => ~Hit /\ mem_req_pending
    /\ ClearResponse(resp_ready)
    /\ UNCHANGED <<lines, lru_way, req_pending, req, resp_data, mem_req_pending, mem_req>>

\* One edge outside reset, with the inputs sampled at it.
ClockEdge(req_valid, r, resp_ready, mem_resp_valid, data) ==
    \/ req_valid /\ AcceptRequest(r, resp_ready)
    \/ mem_resp_valid /\ FillLine(data)
    \/ ReadHit \/ WriteHit \/ RequestWriteback \/ RequestFill
    \/ Wait(req_valid, resp_ready, mem_resp_valid)

\* After reset; what the machine does not read yet is None.
RtlInit ==
    /\ lines = [s \in SetIds |-> [w \in WayIds |->
                   [valid |-> FALSE, dirty |-> FALSE, tag |-> None, data |-> None]]]
    /\ lru_way = [s \in SetIds |-> 0]
    /\ req_pending = FALSE /\ req = None
    /\ resp_valid_r = FALSE /\ resp_data = None
    /\ mem_req_pending = FALSE /\ mem_req = None

RtlNext ==
    \/ \E req_valid, resp_ready, mem_resp_valid \in BOOLEAN,
          r \in CpuRequests, data \in LineData :
             ClockEdge(req_valid, r, resp_ready, mem_resp_valid, data)
    \/ ResetEdge

\* The machine with whatever is on its inputs.
RtlSpec == RtlInit /\ [][RtlNext]_rtlVars
-----------------------------------------------------------------------------
(***************************************************************************)
(* Types of the registers, where they are read.                            *)
(***************************************************************************)
RtlTypeOK ==
    /\ \A s \in SetIds, w \in WayIds : lines[s][w].valid =>
          lines[s][w].tag \in Tags /\ lines[s][w].data \in LineData
    /\ lru_way \in [SetIds -> WayIds]
    /\ req_pending => req \in CpuRequests
    /\ resp_valid_r => resp_data \in Word \cup {[i \in 0 .. WordBytes - 1 |-> 0]}

(***************************************************************************)
(* A tag is in one way of its set at most, whatever answers come from the  *)
(* memory side and when: so the loop that finds the hit way has one answer. *)
(***************************************************************************)
TagInOneWay ==
    \A s \in SetIds : \A v, w \in WayIds :
        lines[s][v].valid /\ lines[s][w].valid /\ lines[s][v].tag = lines[s][w].tag
            => v = w

(***************************************************************************)
(* While a memory request is out, the request it serves still waits, still *)
(* misses and has no response: a fill never meets a hit or an acceptance.  *)
(***************************************************************************)
MemRequestIsMiss ==
    mem_req_pending => req_pending /\ ~resp_valid_r /\ ~Hit

(***************************************************************************)
(* A memory request names the line it is for as long as it is out: a       *)
(* writeback the dirty line that the fill would replace, with its data,    *)
(* and a fill request the line asked for, over a victim that is not dirty. *)
(***************************************************************************)
MemRequestFitsVictim ==
    mem_req_pending =>
        IF mem_req.write
        THEN /\ VictimIsDirty
             /\ mem_req.addr = <<Victim.tag, req.index>>
             /\ mem_req.wdata = Victim.data
        ELSE ~VictimIsDirty /\ mem_req.addr = <<req.tag, req.index>>
=============================================================================
