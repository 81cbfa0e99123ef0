---------------------------- MODULE ExchangeLoops ----------------------------
(***************************************************************************)
(* The loop bodies that the preprocessors, stages and solvers of the MPI   *)
(* programs are made of, each run by a thread for one of its submeshes.    *)
(***************************************************************************)
EXTENDS OmpiThreads

(* Thread t of rank l is <<l, t>>; thread 0 is the master.                 *)
Threads == {th \in Ranks \X UNION {0 .. NumThreads[l] - 1 : l \in Ranks} :
              th[2] < NumThreads[th[1]]}
Masters == {th \in Threads : th[2] = 0}
Runs(th, u) == ThreadRuns(th[1], th[2], u)

(* A loop body that receives, writes the send buffer and sends.            *)
ExchangeBody(u, c, ts) ==
  /\ ReceiveAll(u, c)
  /\ SetToSendBuffer(u, c, ts)
  /\ SendAll(u, c)
  /\ mpi_error' = (mpi_error \/ ReceiveErroneous(u, c) \/ SendErroneous(u, c))
  /\ UNCHANGED receive_buffer

(* A loop body that waits for the receives, or the sends, of a type.       *)
WaitReceivesBody(u, c) ==
  /\ WaitAllReceives(u, c)
  /\ UNCHANGED <<send_buffer, receive_buffer, send_requests, unsent, unreceived,
                 network, posted, mpi_error>>
WaitSendsBody(u, c) ==
  /\ WaitAllSends(u, c)
  /\ UNCHANGED <<send_buffer, receive_buffer, receive_requests, unsent, unreceived,
                 network, posted, mpi_error>>
=============================================================================
