------------------------------- MODULE MCNode -------------------------------
(* Instances of Node.                                                      *)
EXTENDS NodeLink

MCVersion == [kind |-> "version", old |-> FALSE, nonce |-> 0, services |-> Wanted]
MCBlock == [kind |-> "block", hash |-> "b1", valid |-> TRUE]

(* Headers from a node with every service.                                 *)
MCSpeechHeaders == {MCVersion, [kind |-> "verack"], [kind |-> "headers", valid |-> TRUE]}

(* A block from it.                                                        *)
MCSpeechBlock == {MCVersion, [kind |-> "verack"], MCBlock}

(* One message for every rule of the handshake and the session.            *)
MCSpeechAll ==
    MCSpeechBlock \cup
    { [MCVersion EXCEPT !.old = TRUE], [MCVersion EXCEPT !.nonce = 1],
      [MCVersion EXCEPT !.services = {"NETWORK"}],
      [MCBlock EXCEPT !.valid = FALSE],
      [kind |-> "headers", valid |-> FALSE], [kind |-> "inv", valid |-> FALSE],
      [kind |-> "request", valid |-> TRUE],
      [kind |-> "sendtxrcncl"], [kind |-> "wtxidrelay"], [kind |-> "other"],
      [kind |-> "ping"], [kind |-> "pong", ours |-> TRUE],
      [kind |-> "refused", why |-> "Mempool"] }
=============================================================================
