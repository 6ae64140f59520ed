SPECIFICATION FairSpec
CONSTANTS
    Capacity = 2
    MaxLines <- OneMore
    CanStop = FALSE
PROPERTY PipelineCompletes
