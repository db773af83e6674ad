----------------------------- MODULE MCDfuSystem -----------------------------
(* DfuSystem on two sectors, each of two flash words of two bytes.         *)
EXTENDS DfuSystem

\* What later steps depend on.  Not among it: the last request of an idle
\* driver, the address recorded in dfuse_ctx, and a request in TinyUSB's buffer
\* that no branch of tud_dfu_get_status_cb and no waiting host looks at again.
RequestMatters ==
  class.state \in {"DNLOAD_SYNC", "DNBUSY"} \/ class.req.kind = "GET_COMMANDS" \/ host.waiting

Live ==
  <<bank, IF flash_is_busy THEN flash_ctx ELSE ZeroFlashCtx,
    [dfuse_ctx EXCEPT !.current_addr = 0],
    [class EXCEPT !.req = IF RequestMatters THEN class.req ELSE NoRequest], host>>
==============================================================================
