----------------------------- MODULE MCPeripherals -----------------------------
(***************************************************************************)
(* One instance for TLC of the components that share no variable: in each  *)
(* behaviour one of them, "part", runs and the others stay where they are. *)
(* As none reads or writes what another has, the states of each are those  *)
(* of its own specification.                                               *)
(***************************************************************************)
EXTENDS Trackball, Encoder, DragScroll, HostParams, ListUsers, ListReply, PendantLed, DisplayPages,
        TLC

\* Sensor slots 1 and 2 share their pin.
MCPairOf   == (1 :> 1) @@ (2 :> 1) @@ (3 :> 2)
MCFallback == [cpi_step |-> 2, angle |-> 0]
MCWanted   == {MCFallback, [cpi_step |-> 5, angle |-> 90]}

\* The two slots of a pair are alike: one order of their sensors is enough.  A slot
\* without a sensor does as one whose sensor does not answer at the start.  A timer
\* that two sensors share is enough: not all three are of one kind.
InOneOrder ==
  /\ ~(plugged[1] = plugged[2] /\ plugged[2] = plugged[3])
  /\ <<plugged[1], plugged[2]>> \in {<<"none", "none">>, <<"pmw", "pmw">>, <<"adns", "adns">>, <<"pmw", "adns">>}
  /\ plugged[3] # "none"

\* Neighbours in a section, parameters with side effects, and magnetic keys.
MCSessions ==
  {{1, 8}, {2, 3}, {8, 9}, {4, 7}, {5, 6}, {10, 12}, {11, 13}, {14, 45}, {29, 30}, {46},
   {SetMagkeyConfig}}

\* Channel 0, two modules of a channel and one of another.
MCModuleSlots == {<<0, 5>>, <<1, 1>>, <<1, 2>>, <<2, 1>>}

VARIABLE part  \* the component that runs

others(running) ==
  /\ running # "trackball" => UNCHANGED tbVars
  /\ running # "encoder"   => UNCHANGED encVars
  /\ running # "drag"      => UNCHANGED dragVars
  /\ running # "host"      => UNCHANGED hostVars
  /\ running # "users"     => UNCHANGED <<vars, userVars>>
  /\ running # "reply"     => UNCHANGED replyVars
  /\ running # "led"       => UNCHANGED ledVars
  /\ running # "pages"     => UNCHANGED pageVars

\* A component that does not run is in one of its initial states.
PartsInit ==
  /\ part \in {"trackball", "encoder", "drag", "host", "users", "reply", "led", "pages"}
  /\ (part # "trackball" => plugged = [s \in TbSlots |-> "none"] /\ tb = [s \in TbSlots |-> Fallback])
  /\ TrackballInit /\ (part = "trackball" => InOneOrder)
  /\ (part # "encoder" => encRes = 1 /\ shaft = 0)
  /\ EncoderInit
  /\ (part # "drag" => dragSpeed = [b \in Balls |-> 3] /\ dragInvert = [b \in Balls |-> FALSE])
  /\ DragInit
  /\ (part # "host" => session = {46})
  /\ HostInit
  /\ (part # "users" => n = 0)
  /\ UsersInit
  /\ (part # "reply" => listed = 1)
  /\ ReplyInit
  /\ (part # "led" => ledMode = "Off" /\ clock = 0)
  /\ LedInit
  /\ (part # "pages" => target = [reading |-> 0, actuation |-> 0, reset |-> 0, bytes |-> 6])
  /\ PagesInit

PartsNext ==
  /\ part' = part
  /\ others(part)
  /\ \/ part = "trackball" /\ TrackballNext
     \/ part = "encoder" /\ EncoderNext
     \/ part = "drag" /\ DragNext
     \/ part = "host" /\ HostNext
     \/ part = "users" /\ UsersNext
     \/ part = "reply" /\ ReplyNext
     \/ part = "led" /\ LedNext
     \/ part = "pages" /\ PagesNext

partsVars == <<part, tbVars, encVars, dragVars, hostVars, vars, userVars, replyVars, ledVars, pageVars>>

PartsSpec == PartsInit /\ [][PartsNext]_partsVars

\* The type invariants of the components, with the bounds they state: pulses below
\* the resolution, settings within what their users bear, LEDs there are.
PartsTypeOK ==
  /\ TrackballTypeOK /\ EncoderTypeOK /\ DragTypeOK /\ HostTypeOK
  /\ UsersTypeOK /\ LedTypeOK
=============================================================================
