--------------------------- MODULE StatusEffects ---------------------------
(***************************************************************************)
(* What the select loop sees of a WSClient is two bits of its status,      *)
(* WS_CLOSE and WS_SENDING.  These are the values a handler may leave them *)
(* in, over all the outcomes of its system calls.  The module WsClient     *)
(* holds the handlers themselves; that they stay within these effects is   *)
(* an invariant of Connection and a theorem of ConnectionProofs.           *)
(***************************************************************************)
LoopBits == {"CLOSE", "SENDING"}

\* The part of a status that the loop looks at.
Seen(status) == status \cap LoopBits

\* read_client_data before the 101 response: wait for more, refuse, or (not
\* here but in EventLoop) launch a child, which leaves WS_OK.
HandshakeEffects == {{}, {"CLOSE"}, {"CLOSE", "SENDING"}}

\* read_client_data on WebSocket frames.
FrameEffects(bits) == {{}, {"SENDING"}, {"CLOSE"}, {"CLOSE", "SENDING"}, bits}

\* handle_ws_writes, before it looks whether to close.
WriteEffects(bits) == {bits, bits \ {"SENDING"}, {"CLOSE"}}

\* ws_send_data, from check_dirty_pixels.
SendEffects(bits) == {bits, bits \cup {"SENDING"}, {"CLOSE"}}

\* http_error to a client accepted beyond the limit: its status is WS_OK.
RefuseEffects == SendEffects({})
=============================================================================
