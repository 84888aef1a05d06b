SPECIFICATION Spec
CONSTANTS
    NodeIds <- MCNodeIds
    Places = {"west", "middle", "east"}
    Unknown = "unknown"
    Distance <- MCDistance
    Lists <- MCLists
INVARIANTS
    OneAnswerPerList
    NearestAnswers
    AgreeingNodesAnswer
