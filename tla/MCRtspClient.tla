---------------------------- MODULE MCRtspClient ----------------------------
(* The RTSP client with a few commands, faults and redirections.             *)
EXTENDS RtspClient
=============================================================================
