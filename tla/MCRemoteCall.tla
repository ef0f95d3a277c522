---------------------------- MODULE MCRemoteCall ----------------------------
(* The small instances of RemoteCall.tla that TLC checks. *)
EXTENDS RemoteCall

\* The output can exceed the limit, and a reply can be followed by more.
ASSUME LimitIsReached == MaxOutput > Limit /\ MaxOutput > ReplyLength

=============================================================================
