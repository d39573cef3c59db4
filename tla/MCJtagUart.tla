----------------------------- MODULE MCJtagUart -----------------------------
(***************************************************************************)
(* The driver for TLC.  A workload fixes at the start what the task calls  *)
(* and whether the host sends: one direction with all characters, or both  *)
(* with one character and short transfers.                                 *)
(***************************************************************************)
EXTENDS JtagUart

VARIABLE workload

mcVars == <<vars, workload>>

Plain == CHOOSE b \in Bytes : TRUE

\* At most one character on its way differs from the others: the driver
\* treats all alike, so that it shows loss, duplication and reordering.
Plainly(s) == \A k \in DOMAIN s : s[k] = Plain
AtMostOneMarked(s) == \E m \in 0 .. Len(s) : \A k \in DOMAIN s : k # m => s[k] = Plain

Watched == workload = "watched"

Allowed ==
    /\ ~Watched => host_inactive' = 0 /\ timeout' = timeout /\ (ac => ac') /\ ~nonblock'
    /\ workload = "writes" =>
          /\ pc' \notin Reading
          /\ host'.next = host.next /\ rfifo' = <<>>
          /\ AtMostOneMarked(<<host'.got>> \o TxQueue' \o data')
    /\ workload = "reads" =>
          /\ pc' \notin Writing \cup {"c_wait"} /\ space' < BufLen
          /\ AtMostOneMarked(copied' \o RxQueue' \o <<host'.next>>)
    /\ workload = "both" =>
          /\ pc' # "c_wait" /\ host'.next = Plain /\ Plainly(data')
          /\ Len(data') < 2 /\ space' < 2 /\ Len(rfifo') < 2 /\ Len(TxQueue') < 2
    /\ Watched =>
          /\ host'.next = Plain /\ Plainly(data') /\ rfifo' = <<>>
          /\ pc = "idle" => Len(data') \in {0, BufLen} /\ space' < 2

MCInit ==
    /\ Init
    /\ workload \in {"writes", "reads", "both", "watched"}
    /\ Watched \/ timeout = DefaultTimeout
    /\ host.next = Plain /\ host.got = Plain /\ rx_buf[0] = Plain

MCNext == Next /\ Allowed /\ UNCHANGED workload

MCSpec ==
    /\ MCInit /\ [][MCNext]_mcVars
    /\ WF_mcVars(TaskStep /\ MCNext) /\ WF_mcVars(Interrupted /\ MCNext)
    /\ WF_mcVars(HandlerStep /\ MCNext) /\ WF_mcVars(Timeout /\ MCNext)

-----------------------------------------------------------------------------
(* If the host keeps taking characters, everything written reaches it:     *)
(* either it always takes another one, or ring and FIFO run empty.         *)
EverythingIsSent ==
    WF_coreVars(HostTakes) =>
        []<>(wfifo = <<>> /\ tx_in = tx_out) \/ []<><<HostTakes>>_coreVars

(* If the host keeps pausing, a reader does not wait for ever while there  *)
(* are characters for it, even those received while receiving was off.     *)
ReadersAreWoken ==
    WF_coreVars(HostPauses) => (pc = "r_wait" /\ rfifo # <<>> ~> pc # "r_wait")

(* With an alarm and a timeout it can reach, a call on a host that shows   *)
(* no activity comes to an end.                                            *)
CallsOutliveTheHost ==
    Watched /\ timeout <= IntMax - 2 /\ pc # "idle" ~> pc = "idle" \/ ac
=============================================================================
