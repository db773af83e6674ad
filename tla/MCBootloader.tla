---------------------------- MODULE MCBootloader ----------------------------
(* Bootloader on two sectors, each of two flash words of two bytes.        *)
EXTENDS Bootloader

\* The application leaves the last byte of its second word to the padding of a
\* block that ends inside a flash word, and so with the sector that follows.
AllButPads == Addr \ {WORD + 1, SECTOR + WORD + 1}

\* What later steps depend on.  Not among it: the last request of an idle
\* driver, the address recorded in dfuse_ctx, a request in TinyUSB's buffer that
\* no branch of tud_dfu_get_status_cb and no waiting host looks at again, and the
\* alarm key but where it is read.
RequestMatters ==
  class.state \in {"DNLOAD_SYNC", "DNBUSY"} \/ class.req.kind = "GET_COMMANDS" \/ host.waiting

Live ==
  <<bank, IF flash_is_busy THEN flash_ctx ELSE ZeroFlashCtx,
    [dfuse_ctx EXCEPT !.current_addr = 0],
    [class EXCEPT !.req = IF RequestMatters THEN class.req ELSE NoRequest], host,
    pc, BKP0R, on, irq, VTOR, rescue, pc = "read_button" /\ button>>
=============================================================================
