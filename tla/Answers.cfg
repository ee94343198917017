\* Matches of up to 5 events; two queries, three loads, two pictures; the rest in MCAnswers.
CONSTANTS
    Nil = Nil
    MaxEvents = 5
    Tasks = {"t1", "t2"}
    Users = {"u1", "u2"}
    Commands <- MCCommands
    Scores <- MCScores
    MapOf <- MCMapOf
    Bound <- MCBound
    Known <- MCKnown
    FetchLimit = 3
    Loads = {"l1", "l2", "l3"}
    Workloads <- MCWorkloads
    Siblings <- MCSiblings
    Permits = 1
    Pictures = {"p1", "p2"}
    Tiles = 1
    NoPicture = NoPicture
    Maps <- MCMaps
    Circles <- MCCircles
    Sliders <- MCSliders
SPECIFICATION MCSpec
INVARIANTS PagesAreProcessed
INVARIANTS SharedAnswerFits ChatsKeepTheirMap OneQqPerBoundUser
INVARIANTS CommandsAreCoherent ScoresAreTold FiltersAreOpposed PressesMeetTheirNotes
INVARIANTS OneFetchPerUrl
INVARIANTS FileIsReadInOrder SegmentsArePlayable NotesCanBePlayed ChartsAreSound
PROPERTIES PaintsForSomeone EverythingEnds
CHECK_DEADLOCK FALSE
