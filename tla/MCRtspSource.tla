---------------------------- MODULE MCRtspSource ----------------------------
(* The instances of RtspSource that TLC checks. *)
EXTENDS RtspSource

OneMedium == {"video"}

\* Two subsessions of the one medium; one of them behind a subsession the
\* filter ignores; a description nothing of which it can play.
OneMediumSdps == {<<"video", "video">>, <<"text", "video">>, <<"text">>}

TwoVideoSdp == {<<"video", "video">>}

OneVideoSdp == {<<"video">>}

Settings1 == {[autoReconnect |-> TRUE, sendLiveness |-> FALSE]}

\* Enough of them for each setter to be called while a session is playing.
Settings3 == {[autoReconnect |-> TRUE,  sendLiveness |-> TRUE],
              [autoReconnect |-> FALSE, sendLiveness |-> TRUE],
              [autoReconnect |-> FALSE, sendLiveness |-> FALSE]}

AllStates == States

NotSettingUp == States \ {"SettingUp"}

WhileSettingUp == {"SettingUp"}

NoStates == {}

WhilePlaying == {"Playing"}

=============================================================================
