---------------------------- MODULE MCNgxeSlots -----------------------------
(* Small instances of NgxeSlots. *)
EXTENDS NgxeSlots

AllCalls == {"interval", "timeout", "clear", "server", "client", "close", "start"}
ConnectionCalls == {"timeout", "client", "close", "start"}

-----------------------------------------------------------------------------
(* Slots, handles and timers belong together: a handle means what it was      *)
(* returned for, and a timer runs exactly while there is somebody for it      *)
(* (ngxe_close, ngxe_timeout_clear, ngxe_interval_clear, ngx_free_connection). *)
HandlesSound == HandlesValid /\ TimersOwned
=============================================================================
