------------------------------- MODULE TSDBStore -------------------------------
(* The storage engine as an implementation of Store. *)
EXTENDS TSDB

GivenUp == {s \in Samples : Forgotten("raw", s)}

\* What a restart finds: the raw blocks, and the records the replay keeps.
StoredData == DataOf("raw") \cup RecoverableData

\* What is there for a reader: the head and the raw blocks. Which of it a query returns is in
\* TSDBQuery; after a clock step that is less, for a block's range may not cover its samples.
Visible == IF Up THEN HeadData \cup DataOf("raw") ELSE {}

Promise == INSTANCE Store WITH
  Sample <- Samples, up <- Up, acked <- acked, givenUp <- GivenUp,
  stored <- StoredData, visible <- Visible

\* PROPERTY: every step of the write path is one a user of the engine may rely on. In
\* particular no step of a Compact takes a sample from a restart, or from what is there for a
\* reader, before retention may, acknowledged or not; and a replay brings back all that was stored.
ImplementsStore == Promise!Spec
=============================================================================
