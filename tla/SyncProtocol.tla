---------------------------- MODULE SyncProtocol ----------------------------
(***************************************************************************)
(* The sync wire format (protocol/src/sync.rs): the messages the two peers *)
(* of a /sync WebSocket exchange, and the page hash both of them compute.  *)
(*                                                                         *)
(* A page's bytes are a member of Content.  BLAKE3 is taken as injective:  *)
(* page_hash(d) is d under a tag, and the digest over a concatenation of   *)
(* hashes is their sequence under another tag, so two digests are equal    *)
(* exactly when what was hashed is.  Message fields no peer reads          *)
(* (page_size, Hello's max_page, bytes_transferred, the text of an Error)  *)
(* are left out.                                                           *)
(***************************************************************************)
EXTENDS Naturals, Sequences

CONSTANTS
  LastPage,  \* page numbers are 1..LastPage
  Content    \* the values one database page can hold

ASSUME LastPageAssumption == LastPage \in Nat \ {0}

PageNo == 1 .. LastPage

PROTOCOL_VERSION == 1

Version == {PROTOCOL_VERSION, PROTOCOL_VERSION + 1}

page_hash(d) == <<"blake3", d>>

Hash == {page_hash(d) : d \in Content}

\* hasher.update(h) for each h of the sequence, then finalize().
Digest(hashes) == <<"blake3_of_hashes", hashes>>

-----------------------------------------------------------------------------
(* One constructor per SyncMessage variant a peer of this code sends or    *)
(* handles by more than its kind.                                          *)

Hello(v) == [kind |-> "Hello", protocol_version |-> v]

HelloReply(max) == [kind |-> "HelloReply", max_page |-> max]

PageHash(p, h) == [kind |-> "PageHash", page_no |-> p, hash |-> h]

PageHashBatch(p, q, h) ==
  [kind |-> "PageHashBatch", start_page |-> p, end_page |-> q,
   combined_hash |-> h]

RequestPage(p) == [kind |-> "RequestPage", page_no |-> p]

HashMismatchBatch(ps) == [kind |-> "HashMismatchBatch", page_numbers |-> ps]

PageData(p, d) == [kind |-> "PageData", page_no |-> p, data |-> d]

PageDataBatch(es) == [kind |-> "PageDataBatch", pages |-> es]

Complete == [kind |-> "Complete"]

SyncComplete(n) == [kind |-> "SyncComplete", pages_transferred |-> n]

Error == [kind |-> "Error"]

-----------------------------------------------------------------------------
(* What a decoded frame can be.  HashMismatchBatch lists a whole range, so *)
(* its body is a set of page numbers.                                      *)

PageDataEntry == [page_no : PageNo, data : Content]

ServerFrame ==
  [kind : {"HelloReply"}, max_page : 0 .. LastPage]
    \cup [kind : {"RequestPage"}, page_no : PageNo]
    \cup [kind : {"HashMismatchBatch"}, page_numbers : SUBSET PageNo]
    \cup [kind : {"PageData"}, page_no : PageNo, data : Content]
    \cup [kind : {"SyncComplete"}, pages_transferred : Nat]
    \cup {Error}
=============================================================================
