--------------------------- MODULE MCChatClient ---------------------------
\* Instances of ChatClient for TLC; its constants are bounds and are given
\* values in the configurations.
EXTENDS ChatClient

\* An end without a content, and, in the reply to the first message, one that
\* takes all the text back.
NoneOrEmpty == [s \in Send |-> IF s = 1 THEN {NoContent, 0} ELSE {NoContent}]
===========================================================================
