SPECIFICATION InfoSpec
CONSTANTS
    Replies <- MCReplies
    Leftovers <- MCLeftovers
    CustomNames <- MCCustomNames
    MAXDATAGRAM = 150
    A2S_MAXDATASIZE = 1100
INVARIANTS
    InfoTypeOK
    ClientsReadTheAnswer
    TextsFollowTheReply
