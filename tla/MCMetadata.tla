----------------------------- MODULE MCMetadata -----------------------------
(* A small file for Metadata: the channels of one topic share chunks, one    *)
(* channel spans two chunks out of order and logs beyond TIMESTAMP_NS, one   *)
(* has no messages; a full last chunk of rows and an empty metadata record.  *)
EXTENDS Metadata

MCFunctions == {"mcap_topics", "mcap_channels", "mcap_schemas", "mcap_info",
                "mcap_attachments", "mcap_metadata"}
MCChannels == {1, 2, 3, 4}
MCTopicOf == <<"a", "b", "a", "c">>
MCCounts == <<3, 3, 1>>
MCIndexes == {1, 2, 3, 4}
MCChunkOf == <<1, 1, 2, 2>>
MCChannelOf == <<1, 2, 1, 3>>
MCTimesOf == <<{1, 2}, {0, 4}, {0}, {3}>>
MCAttachmentTime == [a \in Attachments |-> 4]
MCKeys == << <<"x", "y">>, <<>>, <<"x">> >>
MCFileTimes == <<0, 4>>

=============================================================================
