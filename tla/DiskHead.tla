------------------------------ MODULE DiskHead ------------------------------
(***************************************************************************)
(* When the simulated disk completes a request (machine/disk.cc): the      *)
(* seek, the rotation and the track buffer.  Time is in ticks; the track   *)
(* under the head turns by one sector in RotationTime ticks, and at time 0 *)
(* the head is at the start of sector 0 of every track.                    *)
(***************************************************************************)
EXTENDS Integers

CONSTANTS
  SectorsPerTrack, NumTracks,
  RotationTime,  \* ticks to turn by one sector
  SeekTime,      \* ticks to move by one track
  MaxTicks       \* bound on the time of the last request

ASSUME DiskHeadAssumption ==
  {SectorsPerTrack, NumTracks, RotationTime, SeekTime, MaxTicks} \subseteq Nat \ {0}

DiskSectors == 0 .. SectorsPerTrack * NumTracks - 1

VARIABLES
  totalTicks,  \* stats->totalTicks
  lastSector, bufferInit, active,
  asked        \* the last request, what it met and its latency

headVars == <<totalTicks, lastSector, bufferInit, active, asked>>

NoRequest == [latency |-> 0]

\* Disk::Disk.
HeadInit ==
  /\ totalTicks = 0
  /\ lastSector = 0 /\ bufferInit = 0 /\ active = FALSE
  /\ asked = NoRequest

Distance(i, j) == IF i < j THEN j - i ELSE i - j

\* What TimeToSeek returns, and what it stores in *rotation.
TimeToSeek(newSector) ==
  LET seek == Distance(newSector \div SectorsPerTrack, lastSector \div SectorsPerTrack) * SeekTime
      over == (totalTicks + seek) % RotationTime
  IN [seek |-> seek, rotation |-> IF over > 0 THEN RotationTime - over ELSE 0]

ModuloDiff(to, from) ==
  (((to % SectorsPerTrack) - (from % SectorsPerTrack)) + SectorsPerTrack) % SectorsPerTrack

\* Mutant of ComputeLatency: a sector that is only being read counts as buffered.
ComputeLatencyEarly(newSector, writing) ==
  LET t == TimeToSeek(newSector)
      timeAfter == totalTicks + t.seek + t.rotation
  IN IF /\ ~writing /\ t.seek = 0
        /\ (timeAfter - bufferInit) \div RotationTime >= ModuloDiff(newSector, bufferInit \div RotationTime)
     THEN RotationTime
     ELSE t.seek + t.rotation + ModuloDiff(newSector, timeAfter \div RotationTime) * RotationTime
            + RotationTime

ComputeLatency(newSector, writing) ==
  LET t == TimeToSeek(newSector)
      timeAfter == totalTicks + t.seek + t.rotation
  IN IF /\ ~writing /\ t.seek = 0
        /\ (timeAfter - bufferInit) \div RotationTime > ModuloDiff(newSector, bufferInit \div RotationTime)
     THEN RotationTime
     ELSE t.seek + t.rotation + ModuloDiff(newSector, timeAfter \div RotationTime) * RotationTime
            + RotationTime

\* Disk::UpdateLast.
UpdateLast(newSector) ==
  LET t == TimeToSeek(newSector) IN
  /\ bufferInit' = IF t.seek # 0 THEN totalTicks + t.seek + t.rotation ELSE bufferInit
  /\ lastSector' = newSector

\* Disk::ReadRequest and Disk::WriteRequest.
Request(sectorNumber, writing) ==
  /\ ~active /\ totalTicks <= MaxTicks
  /\ asked' = [sector |-> sectorNumber, writing |-> writing, time |-> totalTicks,
               moved |-> lastSector \div SectorsPerTrack # sectorNumber \div SectorsPerTrack,
               since |-> bufferInit, latency |-> ComputeLatency(sectorNumber, writing)]
  /\ active' = TRUE
  /\ UpdateLast(sectorNumber)
  /\ UNCHANGED totalTicks

\* Disk::HandleInterrupt, at the time the request was scheduled for.
HandleInterrupt ==
  /\ active /\ active' = FALSE
  /\ totalTicks' = totalTicks + asked.latency
  /\ asked' = NoRequest
  /\ UNCHANGED <<lastSector, bufferInit>>

\* Time passes before the next request.
Tick ==
  /\ ~active /\ totalTicks < MaxTicks
  /\ totalTicks' = totalTicks + 1
  /\ UNCHANGED <<lastSector, bufferInit, active, asked>>

HeadNext == (\E s \in DiskSectors, w \in BOOLEAN : Request(s, w)) \/ HandleInterrupt \/ Tick

HeadSpec == HeadInit /\ [][HeadNext]_headVars
-----------------------------------------------------------------------------
\* At time t the head is at the start of the sector, on its track.
AtStart(sector, t) ==
  t % RotationTime = 0 /\ (t \div RotationTime) % SectorsPerTrack = sector % SectorsPerTrack

\* The latency is the physical one ("rotate completely past newSector").  A
\* read without a seek takes one RotationTime when the whole sector has passed
\* under the head since the head reached this track, and only when it has begun
\* to; one that is passing just then may count as buffered or not.  Any other
\* request ends as soon as the sector has passed after the seek.
LatencyRight ==
  active =>
    LET start == asked.time + asked.latency - RotationTime
        arrival == IF asked.moved THEN bufferInit ELSE asked.time
        Passed(by) == /\ ~asked.writing /\ ~asked.moved
                      /\ \E t \in asked.since .. by : AtStart(asked.sector, t)
    IN \/ asked.latency = RotationTime /\ Passed(asked.time)
       \/ /\ ~Passed(asked.time - RotationTime)
          /\ start >= arrival /\ AtStart(asked.sector, start)
          /\ \A t \in arrival .. start - 1 : ~AtStart(asked.sector, t)
=============================================================================
