------------------------------ MODULE Telemetry ------------------------------
(***************************************************************************)
(* TrackMain (cloud/track/trackMain.cpp): the thread of module TRACK takes *)
(* the OSD and state messages of the aircraft one after the other, keeps   *)
(* what the other modules ask for in m_flightInfo, m_uavModeCode and       *)
(* m_cloudControlActive, forwards the telemetry and reports the end of a   *)
(* flight.  m_flightInfo has no lock: parseOsdMsg resets it and fills it   *)
(* field by field, and a pool thread of another module reads it field by   *)
(* field meanwhile.                                                        *)
(* A field of m_flightInfo is the number of the message it was read from,  *)
(* Blank when parseOsdMsg has reset it.                                    *)
(***************************************************************************)
EXTENDS Integers, Sequences, FiniteSets

CONSTANTS ModeCodes,     \* the mode_code values of a run
          Sources,       \* the control_source values of a run
          Coordinates,   \* the fields getUavPoint reads
          MaxOsd         \* bound on the OSD messages of a run

\* A message without mode_code counts as -1, as does no message at all.
Unknown == -1

Blank == 0

\* What a reader has not come to yet.
NotRead == -1

ASSUME TelemetryAssumption ==
  /\ ModeCodes \subseteq Int /\ Unknown \in ModeCodes
  /\ Sources \subseteq STRING
  /\ Coordinates \in Nat \ {0}
  /\ MaxOsd \in Nat

\* The fields of FlightInfo that other modules read, in its order.
payloadIndex == Coordinates + 1
zoomFactor   == Coordinates + 2
Fields       == 1 .. zoomFactor

VARIABLES parser,         \* where parseOsdMsg is
          field,          \* the field it comes to next
          count,          \* OSD messages taken so far
          info,           \* m_flightInfo
          uavModeCode,    \* m_uavModeCode
          airborne,       \* m_airborne
          cloudControl,   \* m_cloudControlActive
          modes,          \* the mode codes stored so far, oldest first
          ended,          \* STATE_WAYPOINT_END reports
          next,           \* the field a reader comes to next, 0 when none reads
          began,          \* count when its read began
          answer          \* what it has read so far

modeVars == <<uavModeCode, airborne, cloudControl, modes, ended>>
readVars == <<next, began, answer>>
telemetryVars == <<parser, field, count, info, modeVars, readVars>>

TelemetryInit ==
  /\ parser = "idle" /\ field = 1
  /\ count = 0
  /\ info = [f \in Fields |-> Blank]
  /\ uavModeCode = Unknown
  /\ airborne = FALSE
  /\ cloudControl = FALSE
  /\ modes = <<>>
  /\ ended = 0
  /\ next = 0 /\ began = 0
  /\ answer = [f \in Fields |-> NotRead]

-----------------------------------------------------------------------------
(* handleOsdMsg.                                                           *)

BeginOsd ==
  /\ parser = "idle" /\ count < MaxOsd
  /\ parser' = "reset" /\ field' = 1
  /\ UNCHANGED <<count, info, modeVars, readVars>>

\* MUTANT of ResetField: what the last message said is kept.
ResetFieldNot ==
  /\ parser = "reset"
  /\ parser' = (IF field = zoomFactor THEN "parse" ELSE "reset")
  /\ field' = IF field = zoomFactor THEN 1 ELSE field + 1
  /\ count' = IF field = zoomFactor THEN count + 1 ELSE count
  /\ UNCHANGED <<info, modeVars, readVars>>

\* m_flightInfo = FlightInfo(), before anything is parsed.  The new message
\* counts from the end of it.
ResetField ==
  /\ parser = "reset"
  /\ info' = [info EXCEPT ![field] = Blank]
  /\ parser' = (IF field = zoomFactor THEN "parse" ELSE "reset")
  /\ field' = IF field = zoomFactor THEN 1 ELSE field + 1
  /\ count' = IF field = zoomFactor THEN count + 1 ELSE count
  /\ UNCHANGED <<modeVars, readVars>>

\* The message is no JSON or has no data object: nothing is forwarded.
ParseFails ==
  /\ parser = "parse" /\ field = 1
  /\ parser' = "idle"
  /\ UNCHANGED <<field, count, info, modeVars, readVars>>

\* A coordinate the message does not give is 0.0.
ReadCoordinate ==
  /\ parser = "parse"
  /\ \E v \in {Blank, count} : info' = [info EXCEPT ![field] = v]
  /\ parser' = (IF field = Coordinates THEN "mode" ELSE "parse")
  /\ field' = field + 1
  /\ UNCHANGED <<count, modeVars, readVars>>

IsGround(code) == code \in 0 .. 2

IsAirborne(code) == code \in 3 .. 12 \cup 15 .. 20

\* MUTANT of DetectLanding: a code that is not airborne ends the flight silently.
DetectLandingForgets(code) ==
  /\ airborne' = IsAirborne(code)
  /\ ended' = IF IsGround(code) /\ airborne THEN ended + 1 ELSE ended

\* detectLanding.
DetectLanding(code) ==
  /\ airborne' = (IsAirborne(code) \/ (airborne /\ ~IsGround(code)))
  /\ ended' = IF IsGround(code) /\ airborne THEN ended + 1 ELSE ended

\* MUTANT of ReadMode: a message without mode_code keeps the old one.
ReadModeKeepsOld(code) ==
  /\ parser = "mode"
  /\ uavModeCode' = IF code = Unknown THEN uavModeCode ELSE code
  /\ modes' = Append(modes, code)
  /\ IF code = uavModeCode THEN UNCHANGED <<airborne, ended>> ELSE DetectLanding(code)
  /\ parser' = "camera"
  /\ UNCHANGED <<field, count, info, cloudControl, readVars>>

\* The mode code is exchanged; a change is looked at.
ReadMode(code) ==
  /\ parser = "mode"
  /\ uavModeCode' = code
  /\ modes' = Append(modes, code)
  /\ IF code = uavModeCode THEN UNCHANGED <<airborne, ended>> ELSE DetectLanding(code)
  /\ parser' = "camera"
  /\ UNCHANGED <<field, count, info, cloudControl, readVars>>

\* cameras[] may be missing or empty, and either field may be missing.
ReadCamera ==
  /\ parser = "camera"
  /\ \E v \in {info[field], count} : info' = [info EXCEPT ![field] = v]
  /\ parser' = (IF field = zoomFactor THEN "publish" ELSE "camera")
  /\ field' = IF field = zoomFactor THEN 1 ELSE field + 1
  /\ UNCHANGED <<count, modeVars, readVars>>

\* packFlightInfo and packPayloadParam forward m_flightInfo as it is.
PackAndPublish ==
  /\ parser = "publish"
  /\ parser' = "idle"
  /\ UNCHANGED <<field, count, info, modeVars, readVars>>

-----------------------------------------------------------------------------
\* handleStateMsg: A and B are the remote controllers, no field no news.
HandleStateMsg(source) ==
  /\ parser = "idle"
  /\ cloudControl' = (source \notin {"", "A", "B"})
  /\ UNCHANGED <<parser, field, count, info, uavModeCode, airborne, modes, ended, readVars>>

\* getUavPoint begins at the first coordinate, getPayloadIndex and getZoomFactor
\* read one field; all on a thread of another module.
BeginRead(f) ==
  /\ next = 0
  /\ next' = f
  /\ began' = count
  /\ answer' = [g \in Fields |-> NotRead]
  /\ UNCHANGED <<parser, field, count, info, modeVars>>

ReadField ==
  /\ next # 0
  /\ answer' = [answer EXCEPT ![next] = info[next]]
  /\ next' = IF next < Coordinates THEN next + 1 ELSE 0
  /\ UNCHANGED <<parser, field, count, info, modeVars, began>>

-----------------------------------------------------------------------------
TelemetryNext ==
  \/ BeginOsd \/ ResetField \/ ParseFails \/ ReadCoordinate \/ ReadCamera
  \/ PackAndPublish
  \/ \E code \in ModeCodes : ReadMode(code)
  \/ \E source \in Sources : HandleStateMsg(source)
  \/ \E f \in {1, payloadIndex, zoomFactor} : BeginRead(f)
  \/ ReadField

TelemetrySpec == TelemetryInit /\ [][TelemetryNext]_telemetryVars

-----------------------------------------------------------------------------
\* Types; no field of m_flightInfo is newer than the message being parsed, the
\* coordinates are parsed first, and the mode code is the one of the last
\* message that had data.
TelemetryTypeOK ==
  /\ parser \in {"idle", "reset", "parse", "mode", "camera", "publish"}
  /\ field \in Fields /\ (parser = "parse" => field <= Coordinates)
  /\ count \in 0 .. MaxOsd /\ (parser = "reset" => count < MaxOsd)
  /\ info \in [Fields -> 0 .. count]
  /\ uavModeCode \in ModeCodes
  /\ airborne \in BOOLEAN /\ cloudControl \in BOOLEAN
  /\ modes \in Seq(ModeCodes)
  /\ modes # <<>> => uavModeCode = modes[Len(modes)]
  /\ ended \in Nat
  /\ next \in {0} \cup Fields /\ began \in 0 .. count
  /\ answer \in [Fields -> NotRead .. count]

\* A landing, by its definition: a ground code that is the first one since an
\* airborne code.
IsLanding(i) ==
  /\ IsGround(modes[i])
  /\ \E j \in 1 .. i - 1 : /\ IsAirborne(modes[j])
                           /\ \A k \in j + 1 .. i - 1 : ~IsGround(modes[k])

\* detectLanding: the end of a flight is reported once for every landing, and
\* for nothing else, however the aircraft was disconnected in between.
EveryLandingReported == ended = Cardinality({i \in DOMAIN modes : IsLanding(i)})

\* parseOsdMsg, the getters: what is forwarded comes from the newest message that
\* was taken, what that message lacks is blank; and a reader, whose fields may
\* come from several messages, is given none that was older than the newest one
\* when its read began.
NothingStale ==
  \A f \in Fields :
    /\ info[f] \in {Blank, count}
    /\ answer[f] \in {NotRead, Blank} \cup began .. count
=============================================================================
