------------------------------ MODULE WikiNames ------------------------------
(* What pages are called: their files, their rows and the requests for them *)
(* all go by slug (store.rs, index/mod.rs, api/pages.rs).                  *)
CONSTANTS
    Slugs,
    None   \* no file; no row, no list, no total
=============================================================================
