--------------------------- MODULE OutputLifecycle ---------------------------
(***************************************************************************)
(* The life of an encoded service output: obs-output.c (start, stop, force *)
(* stop, reconnect, end of data capture) together with the RTMP output     *)
(* (plugins/obs-outputs/rtmp-stream.c), whose connect and send threads     *)
(* call back into it.  No mutex protects any of this: the two sides talk   *)
(* through atomic booleans, two manual events, one semaphore and           *)
(* pthread_join / pthread_detach.                                          *)
(*                                                                         *)
(* code[t] is what thread t still has to do: a stack of pending steps, the *)
(* head running next.  A call pushes the steps of the callee.  Between two *)
(* steps any other thread may run.  Delay (obs-output-delay.c) is off.     *)
(***************************************************************************)
EXTENDS Integers, Sequences, FiniteSets

CONSTANTS
    Plans,          \* the sessions looked at, see PlanType
    MaxPackets      \* bound: packets waiting in the RTMP output

(* start, stop, fault: bounds on the calls of obs_output_start, of           *)
(* obs_output_stop and obs_output_force_stop, and on the failures;          *)
(* faults: what may fail; metaDataFails: send_meta_data may, too;           *)
(* retryMax: reconnect_retry_max; patient: a new attempt waits for the      *)
(* threads of the last one to end.                                          *)
PlanType == [start : Nat, stop : Nat, fault : Nat, retryMax : Nat,
             faults : SUBSET {"server", "encoder", "settings"},
             metaDataFails : BOOLEAN, patient : BOOLEAN]

ASSUME LifecycleAssumption == MaxPackets \in Nat /\ Plans # {} /\ Plans \subseteq PlanType

VARIABLES
    code,      \* code[t]: the pending steps of thread t
    detached,  \* threads that were detached
    handle,    \* handle[k]: the pthread_t kept for the thread of kind k
    out,       \* struct obs_output
    rtmp,      \* struct rtmp_stream
    encoding,  \* the encoders hooked to the output
    phase,     \* what the frontend takes the output to be doing
    told,      \* codes of the "stop" signals since the last start
    cause,     \* history: who stopped the session ("user") or what failed in it
    plan       \* the settings of the session, the calls and faults left

front == <<phase, told, cause, plan>>
vars  == <<code, detached, handle, out, rtmp, encoding, front>>

Kinds   == {"connect", "send", "reconnect", "end"}
Pool    == [connect |-> {"c1", "c2"}, send |-> {"s1", "s2"},
            reconnect |-> {"r1", "r2"}, end |-> {"e1", "e2"}]
Spawned == UNION {Pool[k] : k \in Kinds}
Threads == Spawned \cup {"user", "encoder"}   \* encoder: the video encoder's thread
Encoders == {"video", "audio"}

Idle(t)  == code[t] = <<>>
At(t, s) == ~Idle(t) /\ Head(code[t]) = s
None     == "none"

(* Thread t goes on with steps s before what it had pending. *)
Continue(t, s) == code' = [code EXCEPT ![t] = s \o Tail(@)]

(* The same, and a new thread of kind k starts with steps entry. *)
Spawn(k, t, s, entry) ==
    \E n \in Pool[k] :
        /\ Idle(n)
        /\ code' = [code EXCEPT ![t] = s \o Tail(@), ![n] = entry]
        /\ handle' = [handle EXCEPT ![k] = n]
        /\ detached' = detached \ {n}

(* pthread_join returns when the thread is gone; on a detached thread its  *)
(* behaviour is undefined, and it may also return at once.                 *)
Joinable(k) == handle[k] = None \/ Idle(handle[k]) \/ handle[k] \in detached

Init ==
    /\ code = [t \in Threads |-> <<>>]
    /\ detached = {}
    /\ handle = [k \in Kinds |-> None]
    /\ out = [active |-> FALSE, dataActive |-> FALSE, stopping |-> FALSE,
              reconnecting |-> FALSE, reconnectStop |-> FALSE, reconnectThread |-> FALSE,
              ending |-> FALSE, retries |-> 0, stopCode |-> "SUCCESS"]
    /\ rtmp = [connecting |-> FALSE, active |-> FALSE, stopEvent |-> FALSE, stopNow |-> FALSE,
               disconnected |-> FALSE, encodeError |-> FALSE, sem |-> 0, packets |-> 0]
    /\ encoding = {}
    /\ phase = "off" /\ told = <<>> /\ cause = {}
    /\ plan \in Plans

Spend(what) == /\ plan[what] > 0
               /\ plan' = [plan EXCEPT ![what] = @ - 1]

(* When patient, the time before a new attempt (a user's reaction, the      *)
(* reconnect delay) is longer than the last attempt's threads take to end. *)
Settled == plan.patient => \A t \in {"c1", "c2", "s1", "s2", "e1", "e2", "encoder"} : Idle(t)

Fails(who) == /\ who \in plan.faults /\ Spend("fault")
              /\ cause' = cause \cup {who}

(* signal_stop: the "stop" signal of the output *)
EmitStop == phase' = "off" /\ told' = Append(told, out.stopCode)

-----------------------------------------------------------------------------
(* obs_output_signal_stop, obs_output_end_data_capture, output_reconnect:  *)
(* called by several threads.                                              *)

SignalStopOf == [SUCCESS        |-> "signalSuccess",
                 DISCONNECTED   |-> "signalDisconnected",
                 CONNECT_FAILED |-> "signalConnectFailed",
                 BAD_PATH       |-> "signalBadPath",
                 ENCODE_ERROR   |-> "signalEncodeError"]
Codes == DOMAIN SignalStopOf

CanReconnect(c) == \/ out.reconnecting /\ c # "SUCCESS"
                   \/ plan.retryMax # 0 /\ c = "DISCONNECTED"

(* mutant: the code is not kept *)
SignalStopNoCode(t, c) ==
    /\ At(t, SignalStopOf[c])
    /\ IF CanReconnect(c)
       THEN /\ UNCHANGED out
            /\ Continue(t, <<"endCaptureQuietly", "reconnect">>)
       ELSE /\ out' = [out EXCEPT !.reconnecting = FALSE]
            /\ Continue(t, <<"endCapture">>)
    /\ UNCHANGED <<detached, handle, rtmp, encoding, front>>

SignalStop(t, c) ==
    /\ At(t, SignalStopOf[c])
    /\ IF CanReconnect(c)
       THEN /\ out' = [out EXCEPT !.stopCode = c]
            /\ Continue(t, <<"endCaptureQuietly", "reconnect">>)
       ELSE /\ out' = [out EXCEPT !.stopCode = c, !.reconnecting = FALSE]
            /\ Continue(t, <<"endCapture">>)
    /\ UNCHANGED <<detached, handle, rtmp, encoding, front>>

(* obs_output_end_data_capture_internal, the early return *)
EndCaptureInactive(t) ==
    /\ ~(out.active /\ out.dataActive)
    /\ \/ /\ At(t, "endCapture")
          /\ EmitStop
          /\ out' = [out EXCEPT !.stopCode = "SUCCESS", !.stopping = FALSE]
       \/ /\ At(t, "endCaptureQuietly")
          /\ UNCHANGED <<phase, told, out>>
    /\ Continue(t, <<>>)
    /\ UNCHANGED <<detached, handle, rtmp, encoding, cause, plan>>

(* mutant: data_active is not asked *)
EndCaptureBeginAgain(t) ==
    /\ out.active
    /\ \/ At(t, "endCapture") /\ Continue(t, <<"endClear", "endJoin", "endSpawn", "endSignal">>)
       \/ At(t, "endCaptureQuietly") /\ Continue(t, <<"endClear", "endJoin", "endSpawn">>)
    /\ UNCHANGED <<detached, handle, out, rtmp, encoding, front>>

(* mutant: the signal argument is taken for FALSE *)
EndCaptureBeginQuietly(t) ==
    /\ out.active /\ out.dataActive
    /\ At(t, "endCapture") \/ At(t, "endCaptureQuietly")
    /\ Continue(t, <<"endClear", "endJoin", "endSpawn">>)
    /\ UNCHANGED <<detached, handle, out, rtmp, encoding, front>>

EndCaptureBegin(t) ==
    /\ out.active /\ out.dataActive
    /\ \/ At(t, "endCapture") /\ Continue(t, <<"endClear", "endJoin", "endSpawn", "endSignal">>)
       \/ At(t, "endCaptureQuietly") /\ Continue(t, <<"endClear", "endJoin", "endSpawn">>)
    /\ UNCHANGED <<detached, handle, out, rtmp, encoding, front>>

EndCaptureClear(t) ==
    /\ At(t, "endClear")
    /\ out' = [out EXCEPT !.dataActive = FALSE]
    /\ Continue(t, <<>>)
    /\ UNCHANGED <<detached, handle, rtmp, encoding, front>>

EndCaptureJoin(t) ==
    /\ At(t, "endJoin")
    /\ out.ending => Joinable("end")
    /\ Continue(t, <<>>)
    /\ UNCHANGED <<detached, handle, out, rtmp, encoding, front>>

EndCaptureSpawn(t) ==
    /\ At(t, "endSpawn")
    /\ out' = [out EXCEPT !.ending = TRUE]
    /\ Spawn("end", t, <<>>, <<"stopEncoders", "deactivate", "stopped", "ended">>)
    /\ UNCHANGED <<rtmp, encoding, front>>

EndCaptureSignal(t) ==
    /\ At(t, "endSignal")
    /\ EmitStop
    /\ out' = [out EXCEPT !.stopCode = "SUCCESS"]
    /\ Continue(t, <<>>)
    /\ UNCHANGED <<detached, handle, rtmp, encoding, cause, plan>>


(* output_reconnect *)
Reconnect(t) ==
    /\ At(t, "reconnect")
    /\ LET tried == IF out.reconnecting THEN out.retries ELSE 0 IN
       \/ /\ out.reconnecting /\ out.reconnectStop
          /\ out' = [out EXCEPT !.reconnecting = FALSE]
          /\ Continue(t, <<>>)
       \/ /\ ~(out.reconnecting /\ out.reconnectStop)
          /\ tried >= plan.retryMax
          /\ out' = [out EXCEPT !.retries = tried, !.stopCode = "DISCONNECTED",
                                !.reconnecting = FALSE]
          /\ Continue(t, <<"endCapture">>)
       \/ /\ ~(out.reconnecting /\ out.reconnectStop)
          /\ tried < plan.retryMax
          /\ out' = [out EXCEPT !.retries = tried + 1, !.stopCode = "DISCONNECTED",
                                !.reconnecting = TRUE,
                                !.reconnectStop = IF out.reconnecting THEN @ ELSE FALSE]
          /\ Continue(t, <<"reconnectSpawn">>)
    /\ UNCHANGED <<detached, handle, rtmp, encoding, front>>

ReconnectSpawn(t) ==
    /\ At(t, "reconnectSpawn")
    /\ Spawn("reconnect", t, <<>>, <<"retryBegin", "retryWait">>)
    /\ UNCHANGED <<out, rtmp, encoding, front>>

-----------------------------------------------------------------------------
(* end_data_capture_thread *)

(* mutant: the encoders are left running *)
StopEncodersNever(t) ==
    /\ At(t, "stopEncoders")
    /\ Continue(t, <<>>)
    /\ UNCHANGED <<detached, handle, out, rtmp, encoding, front>>

(* obs_encoder_stop waits for the encoder's callback to return *)
StopEncoders(t) ==
    /\ At(t, "stopEncoders")
    /\ Idle("encoder")
    /\ encoding' = {}
    /\ Continue(t, <<>>)
    /\ UNCHANGED <<detached, handle, out, rtmp, front>>

Deactivate(t) ==
    /\ At(t, "deactivate")
    /\ out' = [out EXCEPT !.active = FALSE]
    /\ Continue(t, <<>>)
    /\ UNCHANGED <<detached, handle, rtmp, encoding, front>>

SignalStopped(t) ==
    /\ At(t, "stopped")
    /\ out' = [out EXCEPT !.stopping = FALSE]
    /\ Continue(t, <<>>)
    /\ UNCHANGED <<detached, handle, rtmp, encoding, front>>

EndThreadDone(t) ==
    /\ At(t, "ended")
    /\ out' = [out EXCEPT !.ending = FALSE]
    /\ Continue(t, <<>>)
    /\ UNCHANGED <<detached, handle, rtmp, encoding, front>>

EndThread(t) == StopEncoders(t) \/ Deactivate(t) \/ SignalStopped(t) \/ EndThreadDone(t)

-----------------------------------------------------------------------------
(* reconnect_thread *)

RetryBegin(t) ==
    /\ At(t, "retryBegin")
    /\ out' = [out EXCEPT !.reconnectThread = TRUE]
    /\ Continue(t, <<>>)
    /\ UNCHANGED <<detached, handle, rtmp, encoding, front>>

(* os_event_timedwait: woken by reconnect_stop_event, or timed out *)
RetryWait(t) ==
    /\ At(t, "retryWait")
    /\ \/ out.reconnectStop /\ Continue(t, <<"retryEnd">>)
       \/ ~out.reconnectStop /\ Settled /\ Continue(t, <<"startWait", "start", "retryEnd">>)
    /\ UNCHANGED <<detached, handle, out, rtmp, encoding, front>>

RetryEnd(t) ==
    /\ At(t, "retryEnd")
    /\ IF out.reconnectStop
       THEN out' = [out EXCEPT !.reconnecting = FALSE] /\ UNCHANGED detached
       ELSE detached' = detached \cup {handle["reconnect"]} /\ UNCHANGED out
    /\ Continue(t, <<"retryDone">>)
    /\ UNCHANGED <<handle, rtmp, encoding, front>>

RetryDone(t) ==
    /\ At(t, "retryDone")
    /\ out' = [out EXCEPT !.reconnectThread = FALSE]
    /\ Continue(t, <<>>)
    /\ UNCHANGED <<detached, handle, rtmp, encoding, front>>

RetryThread(t) == RetryBegin(t) \/ RetryWait(t) \/ RetryEnd(t) \/ RetryDone(t)

-----------------------------------------------------------------------------
(* obs_output_actual_start, with rtmp_stream_start as info.start *)

StartWait(t) ==
    /\ At(t, "startWait")
    /\ ~out.stopping
    /\ out' = [out EXCEPT !.stopCode = "SUCCESS"]
    /\ Continue(t, <<>>)
    /\ UNCHANGED <<detached, handle, rtmp, encoding, front>>

(* obs_output_can_begin_data_capture and obs_output_initialize_encoders: a  *)
(* failure is returned to the frontend; reconnect_thread ignores it.        *)
StartCheck(t) ==
    /\ At(t, "start")
    /\ \/ /\ ~out.active
          /\ Continue(t, <<"startConnect">>)
          /\ UNCHANGED <<phase, cause, plan>>
       \/ /\ \/ out.active /\ UNCHANGED <<cause, plan>>
             \/ ~out.active /\ Fails("settings")
          /\ Continue(t, <<>>)
          /\ phase' = IF t = "user" THEN "off" ELSE phase
    /\ UNCHANGED <<detached, handle, out, rtmp, encoding, told>>

StartConnect(t) ==
    /\ At(t, "startConnect")
    /\ out.ending => Joinable("end")
    /\ rtmp' = [rtmp EXCEPT !.connecting = TRUE]
    /\ Spawn("connect", t, <<>>, <<"initConnect", "connect">>)
    /\ UNCHANGED <<out, encoding, front>>

Start(t) == StartWait(t) \/ StartCheck(t) \/ StartConnect(t)

-----------------------------------------------------------------------------
(* connect_thread *)

(* init_connect.  When it fails (no service), or the check of the HDR        *)
(* format after it does, the thread signals a stop and returns at once.     *)
InitConnect(t) ==
    /\ At(t, "initConnect")
    /\ rtmp.stopEvent => Joinable("send")
    /\ LET freed == [rtmp EXCEPT !.packets = 0]
           ready == [freed EXCEPT !.disconnected = FALSE, !.encodeError = FALSE] IN
       \/ /\ rtmp' = ready
          /\ Continue(t, <<>>)
          /\ UNCHANGED <<cause, plan>>
       \/ /\ Fails("settings")
          /\ rtmp' \in {freed, ready}
          /\ code' = [code EXCEPT ![t] = <<SignalStopOf["BAD_PATH"]>>]
    /\ UNCHANGED <<detached, handle, out, encoding, phase, told>>

(* RTMP_Connect, then init_send up to active = true *)
TryConnect(t) ==
    /\ At(t, "connect")
    /\ \/ /\ rtmp' = [rtmp EXCEPT !.sem = 0, !.active = TRUE]
          /\ Spawn("send", t, <<"metaData">>, <<"sendWait">>)
          /\ UNCHANGED <<cause, plan>>
       \/ /\ Fails("server")
          /\ Continue(t, <<SignalStopOf["CONNECT_FAILED"], "connectDetach", "connectDone">>)
          /\ UNCHANGED <<rtmp, handle, detached>>
    /\ UNCHANGED <<out, encoding, phase, told>>

SendMetaData(t) ==
    /\ At(t, "metaData")
    /\ \/ /\ Continue(t, <<"beginCapture", "connectDetach", "connectDone">>)
          /\ UNCHANGED <<cause, plan>>
       \/ /\ plan.metaDataFails
          /\ Fails("server")
          /\ Continue(t, <<SignalStopOf["DISCONNECTED"], "connectDetach", "connectDone">>)
    /\ UNCHANGED <<detached, handle, out, rtmp, encoding, phase, told>>

(* obs_output_begin_data_capture: hook, then active, then the signal *)
BeginCapture(t) ==
    /\ At(t, "beginCapture")
    /\ IF out.active
       THEN Continue(t, <<>>) /\ UNCHANGED <<out, encoding>>
       ELSE /\ out' = [out EXCEPT !.dataActive = TRUE]
            /\ encoding' = Encoders
            /\ Continue(t, <<"beginActive", "beginSignal">>)
    /\ UNCHANGED <<detached, handle, rtmp, front>>

BeginActive(t) ==
    /\ At(t, "beginActive")
    /\ out' = [out EXCEPT !.active = TRUE]
    /\ Continue(t, <<>>)
    /\ UNCHANGED <<detached, handle, rtmp, encoding, front>>

BeginSignal(t) ==
    /\ At(t, "beginSignal")
    /\ out' = [out EXCEPT !.reconnecting = FALSE]
    /\ Continue(t, <<>>)
    /\ UNCHANGED <<detached, handle, rtmp, encoding, front>>

ConnectDetach(t) ==
    /\ At(t, "connectDetach")
    /\ detached' = IF rtmp.stopEvent THEN detached ELSE detached \cup {handle["connect"]}
    /\ Continue(t, <<>>)
    /\ UNCHANGED <<handle, out, rtmp, encoding, front>>

ConnectDone(t) ==
    /\ At(t, "connectDone")
    /\ rtmp' = [rtmp EXCEPT !.connecting = FALSE]
    /\ Continue(t, <<>>)
    /\ UNCHANGED <<detached, handle, out, encoding, front>>

ConnectThread(t) ==
    \/ InitConnect(t) \/ TryConnect(t) \/ SendMetaData(t)
    \/ BeginCapture(t) \/ BeginActive(t) \/ BeginSignal(t)
    \/ ConnectDetach(t) \/ ConnectDone(t)

-----------------------------------------------------------------------------
(* send_thread *)

(* mutant: the queue is not asked whether it is empty *)
TakenBlindly == [rtmp EXCEPT !.sem = @ - 1, !.packets = @ - 1]

Taken == [rtmp EXCEPT !.sem = @ - 1, !.packets = IF @ > 0 THEN @ - 1 ELSE 0]

(* woken, and told to stop now, or given a packet past the stop time *)
SendFinish(t) ==
    /\ At(t, "sendWait")
    /\ rtmp.sem > 0
    /\ rtmp.stopEvent /\ (rtmp.stopNow \/ rtmp.packets > 0)
    /\ rtmp' = IF rtmp.stopNow THEN [rtmp EXCEPT !.sem = @ - 1] ELSE Taken
    /\ Continue(t, <<"sendEnd">>)
    /\ UNCHANGED <<detached, handle, out, encoding, front>>

(* woken, and the packet (if there is one) goes out *)
SendPacket(t) ==
    /\ At(t, "sendWait")
    /\ rtmp.sem > 0
    /\ ~(rtmp.stopEvent /\ rtmp.stopNow)
    /\ rtmp' = Taken
    /\ UNCHANGED <<code, detached, handle, out, encoding, front>>

(* woken, and the server is gone *)
SendFail(t) ==
    /\ At(t, "sendWait")
    /\ rtmp.sem > 0 /\ rtmp.packets > 0
    /\ ~(rtmp.stopEvent /\ rtmp.stopNow)
    /\ Fails("server")
    /\ rtmp' = [Taken EXCEPT !.disconnected = TRUE]
    /\ Continue(t, <<"sendEnd">>)
    /\ UNCHANGED <<detached, handle, out, encoding, phase, told>>

SendEnd(t) ==
    /\ At(t, "sendEnd")
    /\ LET clean == <<"sendReset", "sendDone">> IN
       \/ /\ ~rtmp.stopEvent
          /\ detached' = detached \cup {handle["send"]}
          /\ Continue(t, <<SignalStopOf["DISCONNECTED"]>> \o clean)
       \/ /\ rtmp.stopEvent /\ rtmp.encodeError
          /\ Continue(t, <<SignalStopOf["ENCODE_ERROR"]>> \o clean)
          /\ UNCHANGED detached
       \/ /\ rtmp.stopEvent /\ ~rtmp.encodeError
          /\ Continue(t, <<"endCapture">> \o clean)
          /\ UNCHANGED detached
    /\ UNCHANGED <<handle, out, rtmp, encoding, front>>

SendCleanUp(t) ==
    /\ \/ At(t, "sendReset") /\ rtmp' = [rtmp EXCEPT !.packets = 0, !.stopEvent = FALSE]
       \/ At(t, "sendDone") /\ rtmp' = [rtmp EXCEPT !.active = FALSE]
    /\ Continue(t, <<>>)
    /\ UNCHANGED <<detached, handle, out, encoding, front>>

SendThread(t) ==
    SendFinish(t) \/ SendPacket(t) \/ SendFail(t) \/ SendEnd(t) \/ SendCleanUp(t)

-----------------------------------------------------------------------------
(* obs_output_force_stop, obs_output_actual_stop, rtmp_stream_stop *)

ForceStop(t) ==
    /\ At(t, "forceStop")
    /\ out' = [out EXCEPT !.stopCode = IF out.stopping THEN @ ELSE "SUCCESS",
                          !.stopping = TRUE]
    /\ Continue(t, <<"cancelRetry", "rtmpStopNow">>)
    /\ UNCHANGED <<detached, handle, rtmp, encoding, front>>

CancelRetry(t) ==
    /\ At(t, "cancelRetry")
    /\ IF out.reconnecting
       THEN out' = [out EXCEPT !.reconnectStop = TRUE] /\ Continue(t, <<"joinRetry">>)
       ELSE Continue(t, <<>>) /\ UNCHANGED out
    /\ UNCHANGED <<detached, handle, rtmp, encoding, front>>

JoinRetry(t) ==
    /\ At(t, "joinRetry")
    /\ out.reconnectThread => Joinable("reconnect")
    /\ Continue(t, <<>>)
    /\ UNCHANGED <<detached, handle, out, rtmp, encoding, front>>

(* the connect thread a stop must join, if there is one, has ended *)
ConnectEnded == rtmp.connecting => Joinable("connect")

(* mutant: a connection in progress is not waited for *)
RtmpStopNoWait(t) ==
    /\ \/ At(t, "rtmpStopNow") /\ Continue(t, <<"rtmpSignalNow">>)
       \/ At(t, "rtmpStop") /\ ~rtmp.stopEvent /\ Continue(t, <<"rtmpSignal">>)
       \/ At(t, "rtmpStop") /\ rtmp.stopEvent /\ Continue(t, <<>>)
    /\ UNCHANGED <<detached, handle, out, rtmp, encoding, front>>

(* rtmp_stream_stop with ts = 0 and with a time; the latter changes nothing *)
(* when a stop is already under way                                         *)
RtmpStop(t) ==
    /\ \/ /\ At(t, "rtmpStopNow") /\ ConnectEnded
          /\ Continue(t, <<"rtmpSignalNow">>)
       \/ /\ At(t, "rtmpStop") /\ ~rtmp.stopEvent /\ ConnectEnded
          /\ Continue(t, <<"rtmpSignal">>)
       \/ /\ At(t, "rtmpStop") /\ rtmp.stopEvent
          /\ Continue(t, <<>>)
    /\ UNCHANGED <<detached, handle, out, rtmp, encoding, front>>

RtmpSignal(t) ==
    /\ At(t, "rtmpSignal") \/ At(t, "rtmpSignalNow")
    /\ LET now == At(t, "rtmpSignalNow") IN
       IF rtmp.active
       THEN /\ rtmp' = [rtmp EXCEPT !.stopNow = now, !.stopEvent = TRUE,
                                    !.sem = IF now THEN @ + 1 ELSE @]
            /\ Continue(t, <<>>)
       ELSE /\ rtmp' = [rtmp EXCEPT !.stopNow = now]
            /\ Continue(t, <<SignalStopOf["SUCCESS"]>>)
    /\ UNCHANGED <<detached, handle, out, encoding, front>>

Stop(t) == \/ ForceStop(t) \/ CancelRetry(t) \/ JoinRetry(t)
           \/ RtmpStop(t) \/ RtmpSignal(t)

-----------------------------------------------------------------------------
(* The frontend, one call at a time, driven by the signals it has seen. *)

UserStart ==
    /\ Idle("user") /\ phase = "off" /\ Settled
    /\ Spend("start")
    /\ code' = [code EXCEPT !["user"] = <<"startWait", "start">>]
    /\ phase' = "on" /\ told' = <<>> /\ cause' = {}
    /\ UNCHANGED <<detached, handle, out, rtmp, encoding>>

(* obs_output_stop; a call that finds nothing to stop is left out *)
UserStop ==
    /\ Idle("user") /\ phase = "on"
    /\ out.active \/ out.reconnecting
    /\ Spend("stop") /\ cause' = cause \cup {"user"}
    /\ phase' = "stopping"
    /\ IF out.reconnecting
       THEN /\ code' = [code EXCEPT !["user"] = <<"forceStop">>]
            /\ UNCHANGED out
       ELSE /\ ~out.stopping
            /\ out' = [out EXCEPT !.stopping = TRUE]
            /\ code' = [code EXCEPT !["user"] = <<"cancelRetry", "rtmpStop">>]
    /\ UNCHANGED <<detached, handle, rtmp, encoding, told>>

UserForceStop ==
    /\ Idle("user") /\ phase # "off"
    /\ Spend("stop") /\ cause' = cause \cup {"user"}
    /\ phase' = "stopping"
    /\ code' = [code EXCEPT !["user"] = <<"forceStop">>]
    /\ UNCHANGED <<detached, handle, out, rtmp, encoding, told>>

(* interleave_packets of an active output, then rtmp_stream_data *)
Packet ==
    /\ \E e \in encoding : e = "video" => Idle("encoder")
    /\ out.active
    /\ rtmp.active /\ ~rtmp.disconnected
    /\ rtmp.packets < MaxPackets
    /\ rtmp' = [rtmp EXCEPT !.packets = @ + 1, !.sem = @ + 1]
    /\ UNCHANGED <<code, detached, handle, out, encoding, front>>

(* full_stop after an encode error: force stop, then a NULL packet *)
EncodeError ==
    /\ Idle("encoder") /\ "video" \in encoding
    /\ Fails("encoder")
    /\ code' = [code EXCEPT !["encoder"] = <<"forceStop", "nullPacket">>]
    /\ UNCHANGED <<detached, handle, out, rtmp, encoding, phase, told>>

NullPacket(t) ==
    /\ At(t, "nullPacket")
    /\ rtmp' = IF rtmp.disconnected \/ ~rtmp.active THEN rtmp
               ELSE [rtmp EXCEPT !.encodeError = TRUE, !.sem = @ + 1]
    /\ encoding' = encoding \ {"video"}
    /\ Continue(t, <<>>)
    /\ UNCHANGED <<detached, handle, out, front>>

-----------------------------------------------------------------------------
Shared(t) ==
    \/ \E c \in Codes : SignalStop(t, c)
    \/ EndCaptureInactive(t) \/ EndCaptureBegin(t) \/ EndCaptureClear(t)
    \/ EndCaptureJoin(t) \/ EndCaptureSpawn(t) \/ EndCaptureSignal(t)
    \/ Reconnect(t) \/ ReconnectSpawn(t)

Step(t) == \/ Shared(t) \/ EndThread(t) \/ RetryThread(t) \/ Start(t) \/ ConnectThread(t)
           \/ SendThread(t) \/ Stop(t) \/ NullPacket(t)

Next ==
    \/ UserStart \/ UserStop \/ UserForceStop \/ Packet \/ EncodeError
    \/ \E t \in Threads : Step(t)

Spec == Init /\ [][Next]_vars

(* Threads run whenever nothing blocks them, encoders go on encoding, and a *)
(* stop time that packets keep running up to is passed in the end.          *)
Fairness ==
    /\ WF_vars(\E t \in Threads : ~At(t, "sendWait") /\ Step(t))
    /\ WF_vars(Packet)
    /\ SF_vars(\E t \in Threads : SendFinish(t))

FairSpec == Spec /\ Fairness

-----------------------------------------------------------------------------
Steps == {"endCapture", "endCaptureQuietly", "reconnect", "endClear", "endJoin", "endSpawn",
          "endSignal", "reconnectSpawn", "stopEncoders", "deactivate", "stopped", "ended",
          "retryBegin", "retryWait", "retryEnd", "retryDone", "startWait", "start", 
          "startConnect", "initConnect", "connect", "metaData", "beginCapture",
          "beginActive", "beginSignal", "connectDetach", "connectDone", "sendWait", "sendEnd",
          "sendReset", "sendDone", "forceStop", "cancelRetry", "joinRetry",
          "rtmpStop", "rtmpStopNow", "rtmpSignal", "rtmpSignalNow", "nullPacket"}
         \cup {SignalStopOf[c] : c \in Codes}

(* The state has the shape of the two structures and of the threads' stacks. *)
TypeOK ==
    /\ \A t \in Threads : \A i \in DOMAIN code[t] : code[t][i] \in Steps
    /\ detached \subseteq Spawned
    /\ \A k \in Kinds : handle[k] \in Pool[k] \cup {None}
    /\ out \in [active : BOOLEAN, dataActive : BOOLEAN, stopping : BOOLEAN,
               reconnecting : BOOLEAN, reconnectStop : BOOLEAN, reconnectThread : BOOLEAN,
               ending : BOOLEAN, retries : 0..plan.retryMax, stopCode : Codes]
    /\ rtmp \in [connecting : BOOLEAN, active : BOOLEAN, stopEvent : BOOLEAN, stopNow : BOOLEAN,
                disconnected : BOOLEAN, encodeError : BOOLEAN, sem : Nat, packets : 0..MaxPackets]
    /\ encoding \subseteq Encoders
    /\ phase \in {"off", "on", "stopping"}
    /\ told \in Seq(Codes) /\ cause \subseteq plan.faults \cup {"user"}
    /\ plan \in PlanType

Pending(t, s) == \E i \in DOMAIN code[t] : code[t][i] \in s

(* Encoders are hooked only for an output that is active or is just about   *)
(* to be: after end_data_capture_thread no packet reaches the output.       *)
NoOrphanEncoders ==
    encoding # {} => \/ out.active
                     \/ out.dataActive /\ \E t \in Threads : Pending(t, {"beginActive"})

(* A "stop" signal blames who is to blame: a lost or refused connection is  *)
(* reported only when there was one, an encoder error likewise, a session   *)
(* only the server broke is never reported as stopped by the user, and      *)
(* nothing is reported of a session nobody ended.  (A second stop of a      *)
(* session that is already ending may stay in rtmp.stopEvent and end the    *)
(* next session, so this is about one session and its retries; an impatient *)
(* start is such a next session.)                                           *)
StopCodeIsTrue ==
    plan.patient => \A i \in DOMAIN told :
        /\ told[i] \in {"DISCONNECTED", "CONNECT_FAILED"} => "server" \in cause
        /\ told[i] = "ENCODE_ERROR" => "encoder" \in cause
        /\ told[i] = "BAD_PATH" => "settings" \in cause
        /\ told[i] = "SUCCESS" => cause \notin {{}, {"server"}, {"settings"}}

(* No thread waits for another in a circle: stopping_event, pthread_join    *)
(* and the encoder's callback are never all that is left to wait for.       *)
Blocked(t) ==
    \/ At(t, "startWait") /\ out.stopping
    \/ (At(t, "startConnect") \/ At(t, "endJoin")) /\ out.ending /\ ~Joinable("end")
    \/ At(t, "joinRetry") /\ out.reconnectThread /\ ~Joinable("reconnect")
    \/ (At(t, "rtmpStopNow") \/ (At(t, "rtmpStop") /\ ~rtmp.stopEvent)) /\ ~ConnectEnded
    \/ At(t, "initConnect") /\ rtmp.stopEvent /\ ~Joinable("send")
    \/ At(t, "stopEncoders") /\ ~Idle("encoder")

NoDeadlock ==
    (\E t \in Threads : Blocked(t)) =>
        \E t \in Threads : ~(Idle(t) \/ Blocked(t) \/ At(t, "sendWait"))

(* A capture begins only for a frontend that has not been told "stop":      *)
(* no thread of an ended session revives the output.                        *)
NoRevival == [][~out.dataActive /\ out'.dataActive => phase # "off"]_vars

(* A stop the frontend asked for is answered by the "stop" signal.          *)
StopIsAnswered == phase = "stopping" ~> phase = "off"

(* After the "stop" signal the capture ends, unless a new start comes.      *)
CaptureEnds == phase = "off" ~> (encoding = {} \/ phase # "off")

(* A session that is stopped ends, for the frontend and for the encoders.   *)
SessionEnds == StopIsAnswered /\ CaptureEnds


=============================================================================
