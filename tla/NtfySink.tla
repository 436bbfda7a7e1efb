------------------------------ MODULE NtfySink ------------------------------
(***************************************************************************)
(* NtfySink::dispatch (src/src/alert/ntfy.rs): a token of the bucket, the  *)
(* body, one POST.  The module extends TokenBucket, whose caller it is:    *)
(* every call of try_take is a step of dispatch.  The main loop dispatches *)
(* one alert at a time and waits meanwhile.  A restart begins with a full  *)
(* bucket, and with it the history of grants.                              *)
(***************************************************************************)
EXTENDS TokenBucket

CONSTANTS
  Messages,    \* messages of the sample events
  Uncuttable,  \* those whose byte 240 lies inside a character
  Timeout      \* of the HTTP client, 5 s

ASSUME NtfyAssumption == Uncuttable \subseteq Messages /\ Timeout \in Nat

VARIABLES
  phase,    \* "idle", "posting", or "dead" with its daemon
  sent_at,  \* when the request under way was sent, 0 if there is none
  server,   \* what became of it: "none", "pending", "accepted", "rejected"
  outcome   \* what the last call of dispatch returned: "ok", "failed"

ntfyVars == <<vars, phase, sent_at, server, outcome>>

RequestTypeOK ==
  /\ phase \in {"idle", "posting", "dead"}
  /\ sent_at \in 0..now
  /\ server \in {"none", "pending", "accepted", "rejected"}
  /\ phase = "posting" <=> server # "none"
  /\ outcome \in {"ok", "failed"}

NtfyTypeOK == TypeOK /\ RequestTypeOK

NtfyInit ==
  /\ Init
  /\ phase = "idle"
  /\ sent_at = 0
  /\ server = "none"
  /\ outcome = "ok"

-----------------------------------------------------------------------------
(***************************************************************************)
(* The call, up to the request.  A push over the rate is dropped with Ok.  *)
(***************************************************************************)
Throttle ==
  /\ phase = "idle"
  /\ Refuse
  /\ outcome' = "ok"
  /\ UNCHANGED <<phase, sent_at, server>>

(* Mutant of Send: the daemon dies with the request still counted as sent. *)
SendOrForget(m) ==
  /\ phase = "idle"
  /\ Grant
  /\ phase' = IF m \in Uncuttable THEN "dead" ELSE "posting"
  /\ sent_at' = now
  /\ server' = "pending"
  /\ UNCHANGED outcome

Send(m) ==
  /\ phase = "idle"
  /\ m \notin Uncuttable
  /\ Grant
  /\ phase' = "posting"
  /\ sent_at' = now
  /\ server' = "pending"
  /\ UNCHANGED outcome

(* body_for panics, the token being spent, and main with it.               *)
BodyPanics(m) ==
  /\ phase = "idle"
  /\ m \in Uncuttable
  /\ Grant
  /\ phase' = "dead"
  /\ UNCHANGED <<sent_at, server, outcome>>

-----------------------------------------------------------------------------
(***************************************************************************)
(* The answer.  One that is not a success status is an error, and so is a  *)
(* request that cannot be sent or is not answered in time, even if the     *)
(* server has accepted it.                                                 *)
(***************************************************************************)
Finish(result) ==
  /\ phase' = "idle"
  /\ sent_at' = 0
  /\ server' = "none"
  /\ outcome' = result

(* Mutant of Respond: the status is not looked at.                         *)
RespondIgnoringStatus ==
  /\ server \in {"accepted", "rejected"}
  /\ Finish("ok")
  /\ UNCHANGED vars

Respond ==
  /\ server \in {"accepted", "rejected"}
  /\ Finish(IF server = "accepted" THEN "ok" ELSE "failed")
  /\ UNCHANGED vars

(* Mutant of RequestFails: the token is given back.                        *)
RequestFailsRefunding ==
  /\ phase = "posting"
  /\ bucket.tokens + Interval <= Capacity * Interval
  /\ Finish("failed")
  /\ bucket' = [bucket EXCEPT !.tokens = @ + Interval]
  /\ UNCHANGED <<now, granted, refused>>

RequestFails ==
  /\ phase = "posting"
  /\ Finish("failed")
  /\ UNCHANGED vars

(* Outside: the server takes the push or turns it down, or does nothing.   *)
Serve ==
  /\ server = "pending"
  /\ server' \in {"accepted", "rejected"}
  /\ UNCHANGED <<vars, phase, sent_at, outcome>>

-----------------------------------------------------------------------------
(***************************************************************************)
(* The daemon may die at any time, and is started again.                   *)
(***************************************************************************)
Die ==
  /\ phase # "dead"
  /\ phase' = "dead"
  /\ sent_at' = 0
  /\ server' = "none"
  /\ UNCHANGED <<vars, outcome>>

Restart ==
  /\ phase = "dead"
  /\ phase' = "idle"
  /\ outcome' = "ok"
  /\ bucket' = FullBucket(Capacity, Interval, now)
  /\ granted' = <<>>
  /\ refused' = {}
  /\ UNCHANGED <<now, sent_at, server>>

(* The client gives up when its timeout has passed.                        *)
Pass ==
  /\ phase = "posting" => now < sent_at + Timeout
  /\ Tick
  /\ UNCHANGED <<phase, sent_at, server, outcome>>

NtfyNext ==
  \/ Throttle
  \/ \E m \in Messages : Send(m) \/ BodyPanics(m)
  \/ Respond \/ RequestFails \/ Serve
  \/ Die \/ Restart \/ Pass

NtfySpec == NtfyInit /\ [][NtfyNext]_ntfyVars

-----------------------------------------------------------------------------
(***************************************************************************)
(* dispatch returns Ok after a request only if the server took the push    *)
(* (ntfy.rs:192-205).  The converse fails: a push that was taken but not   *)
(* answered in time counts as an error.                                    *)
(***************************************************************************)
OkMeansPushed ==
  [][ phase = "posting" /\ phase' = "idle" /\ outcome' = "ok"
        => server = "accepted" ]_ntfyVars
=============================================================================
